---- MODULE Spec2Model ----
(***************************************************************************)
(* RISC-V hart topology extraction (RiscVIntcParser.c) followed by RHCT    *)
(* table synthesis (RhctGenerator.c).                                      *)
(*                                                                         *)
(* One action per entry point: RiscVIntcDispatcher, BuildRhctTable and     *)
(* FreeRhctTableResources.  Each action is the whole call.  ASSERT() is a  *)
(* diagnostic of debugging builds; the model follows the control flow the  *)
(* code takes past it.                                                     *)
(*                                                                         *)
(* Data encodings.  A string is [chars, fill]: the characters of `chars`   *)
(* followed by `fill` further copies of FillChar.  A CMO object list is    *)
(* [objs, fill]: the objects of `objs` followed by `fill` further copies   *)
(* of FillCmo.  A UINT32 array is [vals, zeros, junk]: the entries         *)
(* written, then zeroed entries, then entries of unknown contents.  Byte   *)
(* sizes and offsets are [hi, lo], the number hi * 2^16 + lo.  Pointers    *)
(* are keys of `heap`, 0 is NULL.                                          *)
(***************************************************************************)
EXTENDS Integers, Sequences, FiniteSets, TLC

\* ------------------------------------------------------------------ bounds
MaxCalls == 4
MaxStrLen == 2
MaxCpus == 2
MaxCmoObjs == 2

\* ------------------------------------------------------- program constants
MAX_UINT16 == 65535
TwoTo16 == MAX_UINT16 + 1

\* Byte sizes and offsets are numbers [hi, lo] of value hi * 2^16 + lo with
\* lo < 2^16: the model checker's integers end at 2^31 - 1.  Object counts
\* are plain integers; those of the model stay below 2^30, where their
\* UINT32 arithmetic does not wrap, and its UINT64 sums stay below 2^47 and
\* are exact.
W(n) == [hi |-> n \div TwoTo16, lo |-> n % TwoTo16]
WAdd(a, b) ==
  [hi |-> a.hi + b.hi + ((a.lo + b.lo) \div TwoTo16), lo |-> (a.lo + b.lo) % TwoTo16]
\* a * k for an integer k < 2^15.
WMul(a, k) ==
  [hi |-> a.hi * k + ((a.lo * k) \div TwoTo16), lo |-> (a.lo * k) % TwoTo16]
WLeq(a, b) == a.hi < b.hi \/ (a.hi = b.hi /\ a.lo <= b.lo)
WGt(a, b) == ~WLeq(a, b)
\* The casts (UINT32) and (UINT16).
U32(a) == [hi |-> a.hi % TwoTo16, lo |-> a.lo]
U16(a) == a.lo
MAX_UINT32 == [hi |-> MAX_UINT16, lo |-> MAX_UINT16]

\* sizeof (EFI_ACPI_6_6_RISCV_HART_CAPABILITIES_TABLE): the 36-byte generic
\* description header, node count, first node offset, frequency and flags.
RhctTableStructSize == 60
\* sizeof (EFI_ACPI_6_6_RHCT_NODE_HEADER): type, length, revision.
RhctNodeHeaderSize == 5
\* sizeof (EFI_ACPI_6_6_RHCT_ISA_STRING_NODE): node header and string length.
RhctIsaStringNodeSize == 7
\* sizeof (EFI_ACPI_6_6_RHCT_CMO_NODE): node header and three block sizes.
RhctCmoNodeSize == 8
\* sizeof (EFI_ACPI_6_6_RHCT_HART_INFO_NODE): node header, offset count, uid.
RhctHartInfoNodeSize == 11
\* sizeof (UINT32)
SizeofUint32 == 4
\* sizeof (RHCT_NODE_INDEXER): an object pointer and a 32-bit offset.
SizeofNodeIndexer == 16
\* sizeof (CM_RISCV_RINTC_INFO)
SizeofRintcInfo == 40

NODE_TYPE_ISA_STRING == 0
NODE_TYPE_CMO == 1
NODE_TYPE_HART_INFO == 65535
ISA_NODE_STRUCTURE_VERSION == 1
CMO_NODE_STRUCTURE_VERSION == 1
HART_INFO_NODE_STRUCTURE_VERSION == 1
RINTC_FLAG_ENABLE == 1
RHCT_TABLE_REVISION == 1

FillChar == "x"
FillCmo == [CbomBlockSize |-> 6, CbopBlockSize |-> 6, CbozBlockSize |-> 6]

\* ------------------------------------------------------------ the heap
\* The pool: the live blocks, each with the tag of the variable it was
\* allocated for and its contents.  Addresses of released blocks are reused.
NoData == [kind |-> "zero"]

NewPtr(hp) == CHOOSE p \in 1..(Cardinality(DOMAIN hp) + 1) : p \notin DOMAIN hp

\* AllocateZeroPool: a new zeroed block, or NULL when the pool is exhausted.
\* m is [heap, reqs, frees, badFrees]: the pool and the pool calls made, each
\* request with the size asked for and the pointer returned.
AllocateZeroPool(m, tag, size, ok) ==
  LET Block(p) ==
        [m   |-> [m EXCEPT !.heap = [q \in DOMAIN m.heap \cup {p} |->
                                       IF q = p THEN [tag |-> tag, data |-> NoData]
                                                ELSE m.heap[q]],
                           !.reqs = Append(@, [tag |-> tag, size |-> size, ptr |-> p])],
         ptr |-> p]
  IN  IF ok
        THEN Block(NewPtr(m.heap))
        ELSE [m   |-> [m EXCEPT !.reqs = Append(@, [tag |-> tag, size |-> size, ptr |-> 0])],
              ptr |-> 0]

\* FreePool: the block leaves the pool; releasing a block that is not live
\* is counted in badFrees.
FreePool(m, p) ==
  IF p \in DOMAIN m.heap
    THEN [m EXCEPT !.heap  = [q \in DOMAIN m.heap \ {p} |-> m.heap[q]],
                   !.frees = Append(@, p)]
    ELSE [m EXCEPT !.frees = Append(@, p), !.badFrees = @ + 1]

\* The contents of block p become d.
Store(m, p, d) == [m EXCEPT !.heap[p].data = d]

LiveOf(hp, tags) == {p \in DOMAIN hp : hp[p].tag \in tags}

GeneratorTags == {"NodeIndexer", "Table", "Offsets"}

\* Number of times p occurs in the sequence s.
Occurrences(s, p) == Cardinality({i \in DOMAIN s : s[i] = p})

\* ---------------------------------------------------------- device tree
\* The tree is [present, AddressCells, cpus, strays, nodes]: whether "/cpus"
\* exists, its #address-cells, its children named "cpu" in tree order, hart
\* nodes that are not children named "cpu" of "/cpus", and the other nodes
\* in the order FdtNextNode meets them.  A hart node is [compatible, regLen,
\* reg, intc, phandle]: reg the cells of its "reg" property and regLen their
\* length in bytes (0: no "reg"), intc whether it has an
\* "interrupt-controller" child and phandle that child's phandle.  Another
\* node is [compatible, phandle, props], props its properties by name.  The
\* FdtNextNode loops of the two resolvers also meet "/cpus" and what is
\* below it; none of those nodes is compatible with a controller kind, so
\* the loops pass them by.
Prop(cells) == [present |-> TRUE, Len |-> SizeofUint32 * Len(cells), Data |-> cells]
\* A property whose length is not a whole number of cells.
RaggedProp(cells, len) == [present |-> TRUE, Len |-> len, Data |-> cells]
NoProp == [present |-> FALSE, Len |-> 0, Data |-> <<>>]

\* FdtGetProp
FdtGetProp(node, name) ==
  IF name \in DOMAIN node.props THEN node.props[name] ELSE NoProp

\* The 32-bit cell Data[i] (i from 0) of a property.  A cell past the end of
\* the property is the word the blob holds there, junk.
CellAt(P, i, junk) == IF i < Len(P.Data) THEN P.Data[i + 1] ELSE junk

\* Fdt64ToCpu (*((UINT64 *)Data + k)) and Fdt32ToCpu (Data[i]): the value as
\* <<high word, low word>>.
Fdt64ToCpu(P, k, junk) == <<CellAt(P, 2 * k, junk), CellAt(P, 2 * k + 1, junk)>>
Fdt32ToCpu(P, i, junk) == <<0, CellAt(P, i, junk)>>
\* The cast of such a value to UINT32 or INT32; the cells of the model are
\* below 2^31.
Low32(v) == v[2]

NoHart == [compatible |-> FALSE, regLen |-> 0, reg |-> <<>>, intc |-> FALSE, phandle |-> 0]

\* FdtParentOffset (FdtNodeOffsetByPhandle (Phandle)): the hart node whose
\* "interrupt-controller" child has the phandle; NoHart, a node without
\* properties, stands for the negative offset of a phandle nothing has.
HartOfPhandle(tree, Phandle) ==
  LET Harts == tree.cpus \o tree.strays
      Found == {i \in DOMAIN Harts : Harts[i].intc /\ Harts[i].phandle = Phandle}
  IN  IF Found = {} THEN NoHart ELSE Harts[CHOOSE i \in Found : \A j \in Found : i <= j]

\* FdtNodeOffsetByPhandle among the other nodes: the index in tree.nodes, 0
\* when nothing has the phandle.
NodeOfPhandle(tree, Phandle) ==
  LET Found == {i \in DOMAIN tree.nodes : tree.nodes[i].phandle = Phandle}
  IN  IF Found = {} THEN 0 ELSE CHOOSE i \in Found : \A j \in Found : i <= j

\* The "reg" property of a hart node.
HartReg(hart) == IF hart.regLen = 0 THEN NoProp ELSE RaggedProp(hart.reg, hart.regLen)

\* ------------------------------------------------------- hart extraction
ZeroRintcInfo ==
  [Flags |-> 0, HartId |-> <<0, 0>>, Version |-> 0, AcpiProcessorUid |-> 0,
   ExtIntcId |-> 0, ImsicBaseAddress |-> <<0, 0>>, ImsicSize |-> 0]

\* The hardware thread id of a hart node as CpuNodeParser, RiscVUpdateRintc
\* and ImsicRintcInfoParser decode it, and the number of bytes they read.
DecodeHartId(hart, AddressCells, junk) ==
  IF AddressCells = 2
    THEN [HartId |-> Fdt64ToCpu(HartReg(hart), 0, junk), Bytes |-> 8]
    ELSE [HartId |-> Fdt32ToCpu(HartReg(hart), 0, junk), Bytes |-> 4]

\* CpuNodeParser leaving the flags of the zeroed record as they are.
CpuNodeParserFlagsKept(cpu, AddressCells, procUid, junk) ==
  LET Decoded(d) ==
        [Status    |-> "EFI_SUCCESS",
         RintcInfo |-> [ZeroRintcInfo EXCEPT !.HartId = d.HartId, !.Version = 1,
                                             !.AcpiProcessorUid = procUid],
         ProcUid   |-> procUid + 1,
         Bytes     |-> d.Bytes]
  IN  IF cpu.regLen = 0 \/ (cpu.regLen # 4 /\ cpu.regLen # 8)
        THEN [Status |-> "EFI_ABORTED", RintcInfo |-> ZeroRintcInfo, ProcUid |-> procUid,
              Bytes |-> 0]
        ELSE Decoded(DecodeHartId(cpu, AddressCells, junk))
\* CpuNodeParser.  procUid is the function's STATIC UINT32 ProcUid; the
\* model's calls leave it far below 2^32.  The status of the search for the
\* "interrupt-controller" child is assigned and not read again.
CpuNodeParser(cpu, AddressCells, procUid, junk) ==
  LET Decoded(d) ==
        [Status    |-> "EFI_SUCCESS",
         RintcInfo |-> [Flags            |-> RINTC_FLAG_ENABLE,
                        HartId           |-> d.HartId,
                        Version          |-> 1,
                        AcpiProcessorUid |-> procUid,
                        ExtIntcId        |-> 0,
                        ImsicBaseAddress |-> <<0, 0>>,
                        ImsicSize        |-> 0],
         ProcUid   |-> procUid + 1,
         Bytes     |-> d.Bytes]
  IN  IF cpu.regLen = 0 \/ (cpu.regLen # 4 /\ cpu.regLen # 8)
        THEN [Status |-> "EFI_ABORTED", RintcInfo |-> ZeroRintcInfo, ProcUid |-> procUid,
              Bytes |-> 0]
        ELSE Decoded(DecodeHartId(cpu, AddressCells, junk))

\* The for loop of CpusNodeParser from Index on: the buffer filled so far,
\* the status the loop ends with, the static counter, and the bytes read of
\* each "reg" property.
RECURSIVE CpusNodeLoop(_, _, _, _, _, _, _)
CpusNodeLoop(cpus, Index, AddressCells, Buffer, procUid, Bytes, junk) ==
  LET Parsed(r) ==
        IF r.Status # "EFI_SUCCESS"
          THEN [Status |-> r.Status, Buffer |-> Buffer, ProcUid |-> r.ProcUid,
                Bytes |-> Bytes]
          ELSE CpusNodeLoop(cpus, Index + 1, AddressCells,
                            Append(Buffer, r.RintcInfo), r.ProcUid,
                            Append(Bytes, r.Bytes), junk)
  IN  IF Index > Len(cpus)
        THEN [Status |-> "EFI_SUCCESS", Buffer |-> Buffer, ProcUid |-> procUid,
              Bytes |-> Bytes]
      ELSE IF ~cpus[Index].compatible
        THEN [Status |-> "EFI_UNSUPPORTED", Buffer |-> Buffer, ProcUid |-> procUid,
              Bytes |-> Bytes]
        ELSE Parsed(CpuNodeParser(cpus[Index], AddressCells, procUid, junk))

\* CreateCmObjDesc: a descriptor block holding a copy of the objects.
CreateCmObjDesc(m, Data, Size, ok) ==
  LET Allocated(a) ==
        IF a.ptr = 0
          THEN [Status |-> "EFI_OUT_OF_RESOURCES", m |-> a.m, Desc |-> 0]
          ELSE [Status |-> "EFI_SUCCESS",
                m      |-> Store(a.m, a.ptr, [kind |-> "CmObjDesc", Data |-> Data]),
                Desc   |-> a.ptr]
  IN  Allocated(AllocateZeroPool(m, "CmObjDesc", Size, ok))

\* FreeCmObjDesc: releases the descriptor; NULL is ignored.
FreeCmObjDesc(m, Desc) == IF Desc = 0 THEN m ELSE FreePool(m, Desc)

\* CpusNodeParser on the "/cpus" node of the tree.  Cpus is what the call
\* did: its status, what the loop over the "cpu" nodes put in
\* RintcInfoBuffer and the bytes it read of each "reg" property.
CpusNodeParser(tree, m, procUid, bufOk, descOk, junk) ==
  LET RintcInfoBufferSize == U32(WMul(W(Len(tree.cpus)), SizeofRintcInfo))
      None(Status) == [Status |-> Status, Buffer |-> <<>>, Bytes |-> <<>>]
      \* exit_handler after CreateCmObjDesc returned c
      Described(a, l, c) ==
        [Status |-> c.Status, m |-> FreePool(c.m, a.ptr), Desc |-> c.Desc,
         ProcUid |-> l.ProcUid,
         Cpus |-> [Status |-> c.Status, Buffer |-> l.Buffer, Bytes |-> l.Bytes]]
      \* after the loop over the cpu nodes returned l
      Looped(a, l) ==
        IF l.Status # "EFI_SUCCESS"
          THEN [Status |-> l.Status, m |-> FreePool(a.m, a.ptr), Desc |-> 0,
                ProcUid |-> l.ProcUid,
                Cpus |-> [Status |-> l.Status, Buffer |-> l.Buffer, Bytes |-> l.Bytes]]
          ELSE Described(a, l, CreateCmObjDesc(a.m, l.Buffer, RintcInfoBufferSize, descOk))
      \* after RintcInfoBuffer was asked for
      Allocated(a) ==
        IF a.ptr = 0
          THEN [Status |-> "EFI_OUT_OF_RESOURCES", m |-> a.m, Desc |-> 0,
                ProcUid |-> procUid, Cpus |-> None("EFI_OUT_OF_RESOURCES")]
          ELSE Looped(a, CpusNodeLoop(tree.cpus, 1, tree.AddressCells, <<>>, procUid,
                                      <<>>, junk))
  IN  IF tree.AddressCells < 0
        THEN [Status |-> "EFI_ABORTED", m |-> m, Desc |-> 0, ProcUid |-> procUid,
              Cpus |-> None("EFI_ABORTED")]
      ELSE IF Len(tree.cpus) = 0
        THEN [Status |-> "EFI_NOT_FOUND", m |-> m, Desc |-> 0, ProcUid |-> procUid,
              Cpus |-> None("EFI_NOT_FOUND")]
        ELSE Allocated(AllocateZeroPool(m, "RintcInfoBuffer", RintcInfoBufferSize, bufOk))

\* ------------------------------------------------ controller resolvers
\* The supervisor external interrupt of a hart's interrupt controller.
IRQ_S_EXT == 9
\* The page of an IMSIC interrupt file: 2^12 bytes.
IMSIC_MMIO_PAGE_SHIFT == 12
IMSIC_MMIO_PAGE_SZ == 4096

ImsicCompatibleInfo == {"riscv,imsics"}
AplicCompatibleInfo == {"riscv,aplic"}
PlicCompatibleInfo == {"riscv,plic0"}

FdtNodeIsCompatible(node, CompatInfo) == node.compatible \in CompatInfo

\* ACPI_BUILD_EXT_INTC_ID: (PlicAplicId << 24) | CtxIdcId, for the ids below
\* 2^7 and the contexts below 2^24 of the model, where the shift loses no
\* bit and the operands of the OR share none.
\* The macro with the id of the controller in the upper half word.
ACPI_BUILD_EXT_INTC_ID_SHIFT16(PlicAplicId, CtxIdcId) == PlicAplicId * (2 ^ 16) + CtxIdcId
ACPI_BUILD_EXT_INTC_ID(PlicAplicId, CtxIdcId) == PlicAplicId * (2 ^ 24) + CtxIdcId

\* RiscVFindRintc: the index of the first record with the hart id, 0 for
\* NULL.
RiscVFindRintc(Data, HartId) ==
  LET Found == {i \in DOMAIN Data : Data[i].HartId = HartId}
  IN  IF Found = {} THEN 0 ELSE CHOOSE i \in Found : \A j \in Found : i <= j

\* FdtCreateExtIntcList.  st.List is the STATIC list ExtIntcList, the nodes
\* linked to its head: the head is initialised anew for every node, so the
\* node becomes the only one linked.
FdtCreateExtIntcList(st, ExtIntcNode, GsiBase, ok) ==
  LET Allocated(a) ==
        IF a.ptr = 0
          THEN [st EXCEPT !.m = a.m]
          ELSE [st EXCEPT !.m = Store(a.m, a.ptr, [kind |-> "ExtIntc",
                                                    ExtIntcNode |-> ExtIntcNode,
                                                    GsiBase |-> GsiBase]),
                          !.List = <<a.ptr>>]
  IN  Allocated(AllocateZeroPool(st.m, "ExtIntcNode", "sizeof (RISCV_EXT_INTC_DATA)", ok))

\* FdtConvertToGsi: the walk over the nodes linked to the head; the first
\* node of the controller gives GsiBase + Irq, and Irq comes back unchanged
\* when the walk ends.  A link of 0 is the NULL of a head that was never
\* initialised: the walk reads through it, which is undefined.
RECURSIVE ConvertFrom(_, _, _, _, _)
ConvertFrom(hp, List, i, ExtIntcNode, Irq) ==
  IF i > Len(List) THEN [ub |-> FALSE, Gsi |-> Irq]
  ELSE IF List[i] = 0 THEN [ub |-> TRUE, Gsi |-> Irq]
  ELSE IF hp[List[i]].data.ExtIntcNode = ExtIntcNode
    THEN [ub |-> FALSE, Gsi |-> hp[List[i]].data.GsiBase + Irq]
    ELSE ConvertFrom(hp, List, i + 1, ExtIntcNode, Irq)
FdtConvertToGsi(hp, List, ExtIntcNode, Irq) == ConvertFrom(hp, List, 1, ExtIntcNode, Irq)

\* FdtFreeExtIntcList: every node linked to the head is unlinked and
\* released.  With a head that was never initialised the first node is NULL
\* and the loop body reads through it.
RECURSIVE FreeFrom(_, _, _)
FreeFrom(m, List, i) ==
  IF i > Len(List) THEN m ELSE FreeFrom(FreePool(m, List[i]), List, i + 1)
FdtFreeExtIntcList(m, List) ==
  IF \E i \in DOMAIN List : List[i] = 0
    THEN [Status |-> "EFI_SUCCESS", m |-> m, List |-> List, ub |-> TRUE]
    ELSE [Status |-> "EFI_SUCCESS", m |-> FreeFrom(m, List, 1), List |-> <<>>, ub |-> FALSE]

\* IsPlicNode
IsPlicNode(node) == FdtNodeIsCompatible(node, PlicCompatibleInfo)

\* Whether the interrupt number of the first pair of a node's
\* "interrupts-extended" is IRQ_S_EXT: the test IsAplicNode makes twice.
FirstIrqIsSExt(node, junk) ==
  LET Tested(IrqProp) ==
        /\ IrqProp.present
        /\ IrqProp.Len >= 4
        /\ Low32(Fdt32ToCpu(IrqProp, 1, junk)) = IRQ_S_EXT
  IN  Tested(FdtGetProp(node, "interrupts-extended"))

\* An IsAplicNode that takes every node compatible with "riscv,aplic".
IsAplicNodeAnyLevel(tree, node, junk) == FdtNodeIsCompatible(node, AplicCompatibleInfo)

\* IsAplicNode
IsAplicNode(tree, node, junk) ==
  LET Resolved(ImsicNode) ==
        IF ImsicNode = 0 THEN FALSE ELSE FirstIrqIsSExt(tree.nodes[ImsicNode], junk)
      Msi(MsiProp) ==
        IF MsiProp.present /\ MsiProp.Len >= 4
          THEN Resolved(NodeOfPhandle(tree, Low32(Fdt32ToCpu(MsiProp, 0, junk))))
          ELSE FALSE
  IN  IF ~FdtNodeIsCompatible(node, AplicCompatibleInfo) THEN FALSE
      ELSE IF FirstIrqIsSExt(node, junk) THEN TRUE
      ELSE Msi(FdtGetProp(node, "msi-parent"))

\* RiscVUpdateRintc storing a fresh record with the id in place of the
\* hart's.
RiscVUpdateRintcFreshRecord(tree, Data, CpuNode, ExtIntcId, junk) ==
  LET Found(RintcInfo) ==
        IF RintcInfo = 0
          THEN [Status |-> "EFI_NOT_FOUND", Data |-> Data]
          ELSE [Status |-> "EFI_SUCCESS",
                Data   |-> [Data EXCEPT ![RintcInfo] =
                              [ZeroRintcInfo EXCEPT !.HartId = Data[RintcInfo].HartId,
                                                    !.ExtIntcId = ExtIntcId]]]
      Decoded(d) == Found(RiscVFindRintc(Data, d.HartId))
  IN  IF CpuNode.regLen = 0 \/ (CpuNode.regLen # 4 /\ CpuNode.regLen # 8)
        THEN [Status |-> "EFI_ABORTED", Data |-> Data]
        ELSE Decoded(DecodeHartId(CpuNode, tree.AddressCells, junk))
\* RiscVUpdateRintc: the records afterwards and the status.
RiscVUpdateRintc(tree, Data, CpuNode, ExtIntcId, junk) ==
  LET Found(RintcInfo) ==
        IF RintcInfo = 0
          THEN [Status |-> "EFI_NOT_FOUND", Data |-> Data]
          ELSE [Status |-> "EFI_SUCCESS",
                Data   |-> [Data EXCEPT ![RintcInfo].ExtIntcId = ExtIntcId]]
      Decoded(d) == Found(RiscVFindRintc(Data, d.HartId))
  IN  IF CpuNode.regLen = 0 \/ (CpuNode.regLen # 4 /\ CpuNode.regLen # 8)
        THEN [Status |-> "EFI_ABORTED", Data |-> Data]
        ELSE Decoded(DecodeHartId(CpuNode, tree.AddressCells, junk))

\* One call of RiscVUpdateRintc by PlicAplicInfoParser for the pair at
\* position Pair of the routing list of the controller Id: st afterwards,
\* with the call entered in st.Writes.  The status is not looked at.
UpdateForPair(tree, st, Id, Pair, Phandle, ExtIntcId, junk) ==
  LET Updated(u) ==
        [st EXCEPT !.Data   = u.Data,
                   !.Writes = Append(@, [Id |-> Id, Pair |-> Pair, Phandle |-> Phandle,
                                         ExtIntcId |-> ExtIntcId, Status |-> u.Status])]
  IN  Updated(RiscVUpdateRintc(tree, st.Data, HartOfPhandle(tree, Phandle), ExtIntcId, junk))

\* The loop of the PLIC branch from the pair Idx2 on (Idx1 = 2 * Idx2), Cells
\* the number of cells of the property.
RECURSIVE PlicPairs(_, _, _, _, _, _, _)
PlicPairs(tree, st, IntExtProp, Cells, Id, Idx2, junk) ==
  IF ~(2 * Idx2 < Cells) THEN st
  ELSE IF Low32(Fdt32ToCpu(IntExtProp, 2 * Idx2 + 1, junk)) = IRQ_S_EXT
    THEN PlicPairs(tree,
                   UpdateForPair(tree, st, Id, Idx2,
                                 Low32(Fdt32ToCpu(IntExtProp, 2 * Idx2, junk)),
                                 ACPI_BUILD_EXT_INTC_ID(Id, 2 * (Idx2 \div 2) + 1), junk),
                   IntExtProp, Cells, Id, Idx2 + 1, junk)
    ELSE PlicPairs(tree, st, IntExtProp, Cells, Id, Idx2 + 1, junk)

\* The loop of the APLIC branch from the cell Idx on.
RECURSIVE AplicPairs(_, _, _, _, _, _, _)
AplicPairs(tree, st, IntExtProp, Cells, Id, Idx, junk) ==
  IF ~(Idx < Cells) THEN st
  ELSE AplicPairs(tree,
                  UpdateForPair(tree, st, Id, Idx \div 2,
                                Low32(Fdt32ToCpu(IntExtProp, Idx, junk)),
                                ACPI_BUILD_EXT_INTC_ID(Id, Idx \div 2), junk),
                  IntExtProp, Cells, Id, Idx + 2, junk)

\* AddSingleCmObj: the registry appends the object to the list of its kind;
\* st.Added lists the objects the call added.
AddSingleCmObj(st, Kind, Info, ok) ==
  IF ok
    THEN [Status |-> "EFI_SUCCESS",
          st |-> [st EXCEPT !.reg[Kind] = Append(@, Info),
                            !.Added = Append(@, [Kind |-> Kind, Info |-> Info])]]
    ELSE [Status |-> "EFI_OUT_OF_RESOURCES", st |-> st]

\* The body of the for loop of PlicAplicInfoParser from the node ExtIntcNode
\* on, with the running GsiBase and Id.  env is [junk, extOk, infoOk, addOk]:
\* the word past the end of a property, and whether the pool serves the list
\* node and the controller record and the registry takes the record.  The
\* model's source counts leave GsiBase far below 2^32.
RECURSIVE PlicAplicLoop(_, _, _, _, _, _)
PlicAplicLoop(tree, st, ExtIntcNode, GsiBase, Id, env) ==
  LET Return(s, Status) == [Status |-> Status, st |-> s]
      Continue(s, gsi, id) == PlicAplicLoop(tree, s, ExtIntcNode + 1, gsi, id, env)
      \* after AddSingleCmObj returned a
      Added(a, gsi) ==
        IF a.Status # "EFI_SUCCESS" THEN Return(a.st, a.Status)
                                    ELSE Continue(a.st, gsi, Id + 1)
      Record(s, a, Kind, Info, gsi) ==
        Added(AddSingleCmObj([s EXCEPT !.m = Store(s.m, a.ptr, Info)], Kind, Info,
                             env.addOk), gsi)
      \* the PLIC branch after PlicInfo was asked for
      PlicAllocated(s, a, Common, IntExtProp, gsi) ==
        IF a.ptr = 0
          THEN Return([s EXCEPT !.m = a.m], "EFI_OUT_OF_RESOURCES")
          ELSE Record(PlicPairs(tree, [s EXCEPT !.m = a.m], IntExtProp,
                                IntExtProp.Len \div 4, Id, 0, env.junk),
                      a, "plic",
                      [PlicAplicCommonInfo |-> [Common EXCEPT !.HwId = "RSCV0001"]], gsi)
      Plic(s, Common, IntExtProp, gsi) ==
        IF ~IntExtProp.present \/ IntExtProp.Len < 4
          THEN Return(s, "EFI_INVALID_PARAMETER")
          ELSE PlicAllocated(s, AllocateZeroPool(s.m, "PlicInfo", "sizeof (CM_RISCV_PLIC_INFO)",
                                                 env.infoOk),
                             Common, IntExtProp, gsi)
      \* the APLIC branch after AplicInfo was asked for
      AplicAllocated(s, a, Common, IntExtProp, gsi) ==
        IF a.ptr = 0
          THEN Return([s EXCEPT !.m = a.m], "EFI_OUT_OF_RESOURCES")
        ELSE IF IntExtProp.present /\ (IntExtProp.Len \div SizeofUint32) % 2 = 0
          THEN Record(AplicPairs(tree, [s EXCEPT !.m = a.m], IntExtProp,
                                 IntExtProp.Len \div 4, Id, 0, env.junk),
                      a, "aplic",
                      [NumIdcs |-> (IntExtProp.Len \div 4) \div 2,
                       PlicAplicCommonInfo |-> [Common EXCEPT !.HwId = "RSCV0002"]], gsi)
          ELSE Record([s EXCEPT !.m = a.m], a, "aplic",
                      [NumIdcs |-> 0,
                       PlicAplicCommonInfo |-> [Common EXCEPT !.HwId = "RSCV0002"]], gsi)
      Aplic(s, Common, IntExtProp, gsi) ==
        AplicAllocated(s, AllocateZeroPool(s.m, "AplicInfo", "sizeof (CM_RISCV_APLIC_INFO)",
                                           env.infoOk),
                       Common, IntExtProp, gsi)
      \* after the common part was filled in
      Branch(node, s, Common) ==
        IF FdtNodeIsCompatible(node, PlicCompatibleInfo)
          THEN Plic(s, Common, FdtGetProp(node, "interrupts-extended"),
                    GsiBase + Common.NumSources)
        ELSE IF FdtNodeIsCompatible(node, AplicCompatibleInfo)
          THEN Aplic(s, Common, FdtGetProp(node, "interrupts-extended"),
                     GsiBase + Common.NumSources)
          ELSE Continue(s, GsiBase + Common.NumSources, Id + 1)
      \* after "reg" was looked up
      Region(node, s, NumProp, RegProp) ==
        IF ~RegProp.present \/ RegProp.Len % 4 > 0
          THEN Return(s, "EFI_INVALID_PARAMETER")
          ELSE Branch(node, s,
                      [Version     |-> 1,
                       Id          |-> Id,
                       NumSources  |-> Low32(Fdt32ToCpu(NumProp, 0, env.junk)),
                       BaseAddress |-> Fdt64ToCpu(RegProp, 0, env.junk),
                       Size        |-> Fdt64ToCpu(RegProp, 1, env.junk),
                       GsiBase     |-> GsiBase,
                       HwId        |-> ""])
      \* after "riscv,num-sources" and "riscv,ndev" were looked up
      Sources(node, s, NumSources, Ndev) ==
        IF ~NumSources.present /\ ~Ndev.present
          THEN Return(s, "EFI_INVALID_PARAMETER")
          ELSE Region(node, s, IF NumSources.present THEN NumSources ELSE Ndev,
                      FdtGetProp(node, "reg"))
      Qualifying(node) ==
        Sources(node, FdtCreateExtIntcList(st, ExtIntcNode, GsiBase, env.extOk),
                FdtGetProp(node, "riscv,num-sources"), FdtGetProp(node, "riscv,ndev"))
      Node(node) ==
        IF ~(IsPlicNode(node) \/ IsAplicNode(tree, node, env.junk))
          THEN Continue(st, GsiBase, Id)
          ELSE Qualifying(node)
  IN  IF ExtIntcNode > Len(tree.nodes)
        THEN Return(st, "EFI_SUCCESS")
        ELSE Node(tree.nodes[ExtIntcNode])

\* PlicAplicInfoParser: GsiBase and Id start at 0, the loop starts at the
\* first node.
\* PlicAplicInfoParser with the counter of global interrupts starting at 1.
PlicAplicInfoParserGsiFromOne(tree, st, env) == PlicAplicLoop(tree, st, 1, 1, 0, env)
PlicAplicInfoParser(tree, st, env) == PlicAplicLoop(tree, st, 1, 0, 0, env)

\* The while loop that gives HartIndexBits its default: one more bit per
\* shift of the count until it is 0.
RECURSIVE ShiftsToZero(_)
ShiftsToZero(Count) == IF Count > 0 THEN 1 + ShiftsToZero(Count \div 2) ELSE 0

\* ImsicBaseLen / IMSIC_MMIO_PAGE_SZ of a length <<high word, low word>>: the
\* high word counts 2^32 bytes, which is 2^20 pages.
ImsicLimit(ImsicBaseLen) ==
  ImsicBaseLen[1] * (2 ^ (32 - IMSIC_MMIO_PAGE_SHIFT))
    + ImsicBaseLen[2] \div IMSIC_MMIO_PAGE_SZ

\* The address of the region for every hart of it.
ImsicCpuBaseOfRegion(ImsicBaseAddr, Idx1) == ImsicBaseAddr
\* ImsicBaseAddr + Idx1 * IMSIC_MMIO_PAGE_SZ; the regions of the model end
\* below the next multiple of 2^31, so that no carry leaves the low word.
ImsicCpuBase(ImsicBaseAddr, Idx1) ==
  <<ImsicBaseAddr[1], ImsicBaseAddr[2] + Idx1 * IMSIC_MMIO_PAGE_SZ>>

\* The two nested loops of ImsicRintcInfoParser over the regions and the
\* harts of each, from region Idx, page Idx1 and reference Idx2 on: the
\* status they end with and the records.
RECURSIVE ImsicHarts(_, _, _, _, _, _, _, _)
ImsicHarts(tree, Data, IntExtProp, ImsicRegProp, Idx, Idx1, Idx2, junk) ==
  LET Found(RintcInfoBuffer) ==
        IF RintcInfoBuffer = 0
          THEN [Status |-> "EFI_NOT_FOUND", Data |-> Data]
          ELSE ImsicHarts(tree,
                          [Data EXCEPT
                             ![RintcInfoBuffer].ImsicBaseAddress =
                               ImsicCpuBase(Fdt64ToCpu(ImsicRegProp, Idx * 2, junk), Idx1),
                             ![RintcInfoBuffer].ImsicSize = IMSIC_MMIO_PAGE_SZ],
                          IntExtProp, ImsicRegProp, Idx, Idx1 + 1, Idx2 + 1, junk)
      Decoded(d) == Found(RiscVFindRintc(Data, d.HartId))
      Hart(CpuNode) ==
        IF tree.AddressCells < 0
          THEN [Status |-> "EFI_ABORTED", Data |-> Data]
        ELSE IF CpuNode.regLen = 0 \/ (CpuNode.regLen # 4 /\ CpuNode.regLen # 8)
          THEN [Status |-> "EFI_ABORTED", Data |-> Data]
          ELSE Decoded(DecodeHartId(CpuNode, tree.AddressCells, junk))
  IN  IF ~(Idx < (ImsicRegProp.Len \div SizeofUint32) \div 4)
        THEN [Status |-> "EFI_SUCCESS", Data |-> Data]
      ELSE IF Idx1 < ImsicLimit(Fdt64ToCpu(ImsicRegProp, Idx * 2 + 1, junk))
              /\ Idx2 < (IntExtProp.Len \div SizeofUint32) \div 2
        THEN Hart(HartOfPhandle(tree, Low32(Fdt32ToCpu(IntExtProp, Idx2 * 2, junk))))
        ELSE ImsicHarts(tree, Data, IntExtProp, ImsicRegProp, Idx + 1, 0, Idx2, junk)

\* The value of an optional 32-bit property, Default when it is absent.
OptionalCell(P, Default, junk) ==
  IF P.present THEN Low32(Fdt32ToCpu(P, 0, junk)) ELSE Default

\* The body of the for loop of ImsicRintcInfoParser from the node ImsicNode
\* on.
RECURSIVE ImsicLoop(_, _, _, _)
ImsicLoop(tree, st, ImsicNode, env) ==
  LET Return(s, Status) == [Status |-> Status, st |-> s]
      Continue == ImsicLoop(tree, st, ImsicNode + 1, env)
      Added(a) == Return(a.st, a.Status)
      \* after the loops over the regions returned h
      Harts(ImsicInfo, h) ==
        IF h.Status # "EFI_SUCCESS"
          THEN Return([st EXCEPT !.Data = h.Data], h.Status)
          ELSE Added(AddSingleCmObj([st EXCEPT !.Data = h.Data], "imsic", ImsicInfo,
                                    env.addOk))
      \* after "reg" was looked up
      Region(node, ImsicInfo, IntExtProp, NumPhandle, ImsicRegProp) ==
        IF ~ImsicRegProp.present \/ (ImsicRegProp.Len \div SizeofUint32) % 4 # 0
          THEN Return(st, "EFI_INVALID_PARAMETER")
          ELSE Harts(IF ImsicInfo.HartIndexBits = 0
                       THEN [ImsicInfo EXCEPT !.HartIndexBits = ShiftsToZero(NumPhandle)]
                       ELSE ImsicInfo,
                     ImsicHarts(tree, st.Data, IntExtProp, ImsicRegProp, 0, 0, 0, env.junk))
      \* after "riscv,num-ids" was read
      Ids(node, IntExtProp, NumPhandle, NumIds) ==
        Region(node,
               [NumIds          |-> NumIds,
                NumGuestIds     |-> OptionalCell(FdtGetProp(node, "riscv,num-guest-ids"),
                                                 NumIds, env.junk),
                GuestIndexBits  |-> OptionalCell(FdtGetProp(node, "riscv,guest-index-bits"),
                                                 0, env.junk),
                HartIndexBits   |-> OptionalCell(FdtGetProp(node, "riscv,hart-index-bits"),
                                                 0, env.junk),
                GroupIndexBits  |-> OptionalCell(FdtGetProp(node, "riscv,group-index-bits"),
                                                 0, env.junk),
                GroupIndexShift |-> OptionalCell(FdtGetProp(node, "riscv,group-index-shift"),
                                                 IMSIC_MMIO_PAGE_SHIFT * 2, env.junk),
                Version         |-> 1,
                Flags           |-> 0],
               IntExtProp, NumPhandle, FdtGetProp(node, "reg"))
      SMode(node, IntExtProp, NumPhandle, NumIdsProp) ==
        IF NumPhandle = 0 THEN Return(st, "EFI_NOT_FOUND")
        ELSE IF ~NumIdsProp.present THEN Return(st, "EFI_INVALID_PARAMETER")
        ELSE Ids(node, IntExtProp, NumPhandle, Low32(Fdt32ToCpu(NumIdsProp, 0, env.junk)))
      Imsic(node, IntExtProp) ==
        IF ~IntExtProp.present \/ (IntExtProp.Len \div SizeofUint32) % 2 # 0
          THEN Return(st, "EFI_INVALID_PARAMETER")
        ELSE IF Low32(Fdt32ToCpu(IntExtProp, 1, env.junk)) = IRQ_S_EXT
          THEN SMode(node, IntExtProp, (IntExtProp.Len \div SizeofUint32) \div 2,
                     FdtGetProp(node, "riscv,num-ids"))
          ELSE Continue
      Node(node) ==
        IF FdtNodeIsCompatible(node, ImsicCompatibleInfo)
          THEN Imsic(node, FdtGetProp(node, "interrupts-extended"))
          ELSE Continue
  IN  IF ImsicNode > Len(tree.nodes)
        THEN Return(st, "EFI_NOT_FOUND")
        ELSE Node(tree.nodes[ImsicNode])

\* ImsicRintcInfoParser: the loop starts at the first node.
ImsicRintcInfoParser(tree, st, env) == ImsicLoop(tree, st, 1, env)

\* AddMultipleCmObj: the registry stores the list under its type tag.
AddMultipleCmObj(reg, Data, ok) ==
  IF ok THEN [Status |-> "EFI_SUCCESS", reg |-> [reg EXCEPT !.rintc = Data]]
        ELSE [Status |-> "EFI_OUT_OF_RESOURCES", reg |-> reg]

\* RiscVIntcInfoParser.  List is the STATIC ExtIntcList.  The result tells,
\* besides what the call left behind, what its parts did: Cpus the hart
\* builder's buffer, Imsic and PlicAplic the statuses of the two resolvers
\* ("" for one not called), Added the controller records registered and
\* Writes the calls of RiscVUpdateRintc.
RiscVIntcInfoParser(tree, m, reg, List, procUid, bufOk, descOk, addOk, env) ==
  LET \* exit_handler: the descriptor is released on every path that made it;
      \* Enriched are the records as each resolver left them
      Exit(Status, c, st, Harts, Imsic, PlicAplic, Enriched) ==
        [Status |-> Status, m |-> FreeCmObjDesc(st.m, c.Desc), reg |-> st.reg,
         List |-> st.List, ProcUid |-> c.ProcUid, Harts |-> Harts, Cpus |-> c.Cpus,
         Imsic |-> Imsic, PlicAplic |-> PlicAplic, Added |-> st.Added,
         Writes |-> st.Writes, Enriched |-> Enriched]
      Added(c, i, p, a) ==
        Exit(a.Status, c, [p.st EXCEPT !.reg = a.reg],
             IF a.Status = "EFI_SUCCESS" THEN p.st.Data ELSE <<>>, i.Status, p.Status,
             <<i.st.Data, p.st.Data>>)
      AfterPlicAplic(c, i, p) ==
        IF p.Status # "EFI_SUCCESS" /\ p.Status # "EFI_NOT_FOUND"
          THEN Exit(p.Status, c, p.st, <<>>, i.Status, p.Status, <<i.st.Data, p.st.Data>>)
          ELSE Added(c, i, p, AddMultipleCmObj(p.st.reg, p.st.Data, addOk))
      AfterImsic(c, i) ==
        IF i.Status # "EFI_SUCCESS" /\ i.Status # "EFI_NOT_FOUND"
          THEN Exit(i.Status, c, i.st, <<>>, i.Status, "", <<i.st.Data>>)
          ELSE AfterPlicAplic(c, i, PlicAplicInfoParser(tree, i.st, env))
      AfterCpus(c) ==
        IF c.Status # "EFI_SUCCESS"
          THEN [Status |-> c.Status, m |-> c.m, reg |-> reg, List |-> List,
                ProcUid |-> c.ProcUid, Harts |-> <<>>, Cpus |-> c.Cpus,
                Imsic |-> "", PlicAplic |-> "", Added |-> <<>>, Writes |-> <<>>,
                Enriched |-> <<>>]
          ELSE AfterImsic(c, ImsicRintcInfoParser(
                               tree,
                               [m |-> c.m, reg |-> reg, Data |-> c.m.heap[c.Desc].data.Data,
                                List |-> List, Added |-> <<>>, Writes |-> <<>>],
                               env))
  IN  AfterCpus(CpusNodeParser(tree, m, procUid, bufOk, descOk, env.junk))

\* RiscVIntcDispatcher: the tree has no "/cpus" node when tree.present is
\* FALSE.
RiscVIntcDispatcher(tree, m, reg, List, procUid, bufOk, descOk, addOk, env) ==
  IF ~tree.present
    THEN [Status |-> "EFI_NOT_FOUND", m |-> m, reg |-> reg, List |-> List,
          ProcUid |-> procUid, Harts |-> <<>>,
          Cpus |-> [Status |-> "", Buffer |-> <<>>, Bytes |-> <<>>],
          Imsic |-> "", PlicAplic |-> "", Added |-> <<>>, Writes |-> <<>>,
          Enriched |-> <<>>]
    ELSE RiscVIntcInfoParser(tree, m, reg, List, procUid, bufOk, descOk, addOk, env)

\* ------------------------------------------------------ RHCT generator
\* AsciiStrLen, AsciiStrSize: the length without and with the terminator.
AsciiStrLen(String) == Len(String.chars) + String.fill
AsciiStrSize(String) == AsciiStrLen(String) + 1

\* ALIGN_VALUE for an alignment that is a power of two.
ALIGN_VALUE(Value, Alignment) == ((Value + Alignment - 1) \div Alignment) * Alignment

\* AsciiStrCpyS into a zeroed area of AreaSize bytes: the bytes of the area
\* afterwards, [chars, fill, zeros].  Nothing is copied unless DestMax
\* exceeds the length of the source.
AsciiStrCpyS(AreaSize, DestMax, Source) ==
  IF DestMax = 0 \/ DestMax <= AsciiStrLen(Source)
    THEN [chars |-> <<>>, fill |-> 0, zeros |-> AreaSize]
    ELSE [chars |-> Source.chars, fill |-> Source.fill,
          zeros |-> AreaSize - AsciiStrLen(Source)]

\* Number of objects of a CMO list and its object number i (from 0).
CmoListCount(NodeList) == Len(NodeList.objs) + NodeList.fill
CmoListAt(NodeList, i) ==
  IF i < Len(NodeList.objs) THEN NodeList.objs[i + 1] ELSE FillCmo

\* GetSizeofCmoNodes.  The loop appends one indexer entry per object, entry
\* i (from 0) with Offset (UINT32)(i * sizeof (CMO node) + NodeStartOffset);
\* the entries of the group are kept as [Object, count, start, stride].
GetSizeofCmoNodes(NodeStartOffset, NodeList, NodeCount, Indexer) ==
  [Size    |-> WMul(W(NodeCount), RhctCmoNodeSize),
   Indexer |-> [Indexer EXCEPT !.groups =
                  Append(@, [Object |-> "CmoNode", count |-> NodeCount,
                             start |-> NodeStartOffset, stride |-> W(RhctCmoNodeSize)])]]

\* GetIsaStringNodeSize with the string's size left unaligned.
GetIsaStringNodeSizeUnaligned(IsaString) ==
  LET Checked(Size) ==
        [Status |-> IF WGt(Size, W(MAX_UINT16)) THEN "EFI_INVALID_PARAMETER"
                                                ELSE "EFI_SUCCESS",
         Size   |-> Size]
  IN  Checked(U32(W(RhctIsaStringNodeSize + AsciiStrSize(IsaString))))

\* GetIsaStringNodeSize.
GetIsaStringNodeSize(IsaString) ==
  LET Checked(Size) ==
        [Status |-> IF WGt(Size, W(MAX_UINT16)) THEN "EFI_INVALID_PARAMETER"
                                                ELSE "EFI_SUCCESS",
         Size   |-> Size]
  IN  Checked(U32(W(RhctIsaStringNodeSize + ALIGN_VALUE(AsciiStrSize(IsaString), 2))))

\* GetHartInfoSize.
GetHartInfoSize(NumOffsets) ==
  U32(WAdd(W(RhctHartInfoNodeSize), WMul(W(NumOffsets), SizeofUint32)))

\* GetSizeofHartInfoNodes returning the size of the group without its last
\* node.
GetSizeofHartInfoNodesOneShort(NodeStartOffset, NodeList, NodeCount, NumOffsets, Indexer) ==
  LET Sized(NodeSize) ==
        [Size    |-> WMul(NodeSize, NodeCount - 1),
         Indexer |-> [Indexer EXCEPT !.groups =
                        Append(@, [Object |-> "RintcInfo", count |-> NodeCount,
                                   start |-> NodeStartOffset, stride |-> NodeSize])]]
  IN  Sized(GetHartInfoSize(NumOffsets))
\* GetSizeofHartInfoNodes, entries kept as for GetSizeofCmoNodes.
GetSizeofHartInfoNodes(NodeStartOffset, NodeList, NodeCount, NumOffsets, Indexer) ==
  LET Sized(NodeSize) ==
        [Size    |-> WMul(NodeSize, NodeCount),
         Indexer |-> [Indexer EXCEPT !.groups =
                        Append(@, [Object |-> "RintcInfo", count |-> NodeCount,
                                   start |-> NodeStartOffset, stride |-> NodeSize])]]
  IN  Sized(GetHartInfoSize(NumOffsets))

\* The entry number k (from 0) of the node indexer: the object it refers to
\* and its offset, or the zero entry AllocateZeroPool left.
RECURSIVE IndexerEntryFrom(_, _, _)
IndexerEntryFrom(groups, g, k) ==
  LET Entry(group) ==
        IF k < group.count
          THEN [Object |-> group.Object, index |-> k,
                Offset |-> U32(WAdd(IF group.stride.hi = 0
                                      THEN WMul(W(k), group.stride.lo)
                                      ELSE WMul(group.stride, k),
                                    group.start))]
          ELSE IndexerEntryFrom(groups, g + 1, k - group.count)
  IN  IF g > Len(groups) THEN [Object |-> "NULL", index |-> 0, Offset |-> W(0)]
                         ELSE Entry(groups[g])
IndexerEntry(Indexer, k) == IndexerEntryFrom(Indexer.groups, 1, k)

\* A store of Bytes bytes at offset Offset of a buffer of Size bytes.
InBounds(Size, Offset, Bytes) == WLeq(WAdd(Offset, Bytes), Size)

\* AddCmoNodes.  CmoNode is never advanced: every object of the list is
\* stored into the node at NodesStartOffset, and the last one stays.
AddCmoNodes(Rhct, NodesStartOffset, NodeList, NodeCount) ==
  LET NodeLength == W(RhctCmoNodeSize)
      Node(Last) ==
        [Offset        |-> NodesStartOffset,
         Type          |-> NODE_TYPE_CMO,
         Length        |-> U16(NodeLength),
         Revision      |-> CMO_NODE_STRUCTURE_VERSION,
         CbomBlockSize |-> Last.CbomBlockSize,
         CbopBlockSize |-> Last.CbopBlockSize,
         CbozBlockSize |-> Last.CbozBlockSize,
         Stored        |-> NodeLength]
  IN  IF NodeCount = 0
        THEN [Status |-> "EFI_SUCCESS", Rhct |-> Rhct]
        ELSE [Status |-> "EFI_SUCCESS",
              Rhct |-> [Rhct EXCEPT
                !.nodes = Append(@, Node(CmoListAt(NodeList, NodeCount - 1))),
                !.oob = @ \/ ~InBounds(Rhct.Size, NodesStartOffset, NodeLength)]]

\* AddIsaStringNode.
AddIsaStringNode(Rhct, NodesStartOffset, IsaString) ==
  LET IsaLength == (AsciiStrSize(IsaString) + 1) % TwoTo16
      \* the node once Stored bytes of it were written
      Written(NodeLength, Area, Stored) ==
        [Status |-> "EFI_SUCCESS",
         Rhct |-> [Rhct EXCEPT
           !.nodes = Append(@, [Offset    |-> NodesStartOffset,
                                Type      |-> NODE_TYPE_ISA_STRING,
                                Length    |-> U16(NodeLength),
                                Revision  |-> ISA_NODE_STRUCTURE_VERSION,
                                IsaLength |-> IsaLength,
                                IsaString |-> Area,
                                Stored    |-> Stored]),
           !.oob = @ \/ ~InBounds(Rhct.Size, NodesStartOffset, Stored)]]
      \* AsciiStrCpyS left Area; its status is not looked at
      Copied(NodeLength, AreaSize, Area) ==
        Written(NodeLength, Area,
                W(RhctIsaStringNodeSize
                    + (IF Area.zeros = AreaSize THEN 0 ELSE AsciiStrSize(IsaString))))
      Copy(NodeLength, AreaSize) ==
        Copied(NodeLength, AreaSize, AsciiStrCpyS(AreaSize, IsaLength, IsaString))
      Sized(n) ==
        IF n.Status # "EFI_SUCCESS"
          THEN [Status |-> n.Status, Rhct |-> Rhct]
          ELSE Copy(n.Size, U16(n.Size) - RhctIsaStringNodeSize)
  IN  Sized(GetIsaStringNodeSize(IsaString))

\* An AddHartInfoNodes that numbers the nodes by their position instead of
\* copying AcpiProcessorUid.
AddHartInfoNodesPositionUid(Rhct, NodesStartOffset, NumOffsets, Offsets, NodeList, NodeCount) ==
  LET Node(NodeLength, j) ==
        [Offset     |-> WAdd(NodesStartOffset, WMul(NodeLength, j - 1)),
         Type       |-> NODE_TYPE_HART_INFO,
         Length     |-> U16(NodeLength),
         Revision   |-> HART_INFO_NODE_STRUCTURE_VERSION,
         NumOffsets |-> NumOffsets % TwoTo16,
         Uid        |-> j - 1,
         Offsets    |-> Offsets,
         Stored     |-> NodeLength]
      Nodes(NodeLength) ==
        IF WGt(NodeLength, W(MAX_UINT16))
          THEN [Status |-> "EFI_INVALID_PARAMETER", Rhct |-> Rhct]
          ELSE [Status |-> "EFI_SUCCESS",
                Rhct |-> [Rhct EXCEPT
                  !.nodes = @ \o [j \in 1..NodeCount |-> Node(NodeLength, j)],
                  !.oob = @ \/ ~InBounds(Rhct.Size, NodesStartOffset,
                                         WMul(NodeLength, NodeCount))]]
  IN  IF NodeCount = 0
        THEN [Status |-> "EFI_SUCCESS", Rhct |-> Rhct]
        ELSE Nodes(GetHartInfoSize(NumOffsets))

\* AddHartInfoNodes.  Offsets is the array copied into every node.
AddHartInfoNodes(Rhct, NodesStartOffset, NumOffsets, Offsets, NodeList, NodeCount) ==
  LET Node(NodeLength, j) ==
        [Offset     |-> WAdd(NodesStartOffset, WMul(NodeLength, j - 1)),
         Type       |-> NODE_TYPE_HART_INFO,
         Length     |-> U16(NodeLength),
         Revision   |-> HART_INFO_NODE_STRUCTURE_VERSION,
         NumOffsets |-> NumOffsets % TwoTo16,
         Uid        |-> NodeList[j].AcpiProcessorUid,
         Offsets    |-> Offsets,
         Stored     |-> NodeLength]
      Nodes(NodeLength) ==
        IF WGt(NodeLength, W(MAX_UINT16))
          THEN [Status |-> "EFI_INVALID_PARAMETER", Rhct |-> Rhct]
          ELSE [Status |-> "EFI_SUCCESS",
                Rhct |-> [Rhct EXCEPT
                  !.nodes = @ \o [j \in 1..NodeCount |-> Node(NodeLength, j)],
                  !.oob = @ \/ ~InBounds(Rhct.Size, NodesStartOffset,
                                         WMul(NodeLength, NodeCount))]]
  IN  IF NodeCount = 0
        THEN [Status |-> "EFI_SUCCESS", Rhct |-> Rhct]
        ELSE Nodes(GetHartInfoSize(NumOffsets))

\* The typed list the registry holds for an object id: NOT_FOUND when it
\* holds none, else the list and its count (GET_OBJECT_LIST).
GetObjectList(Count) == IF Count = 0 THEN "EFI_NOT_FOUND" ELSE "EFI_SUCCESS"

\* AddAcpiHeader: the generic header with the table length, or a failure.
AddAcpiHeader(Rhct, Length, ok) ==
  IF ok THEN [Status |-> "EFI_SUCCESS", Rhct |-> [Rhct EXCEPT !.Length = Length]]
        ELSE [Status |-> "EFI_INVALID_PARAMETER", Rhct |-> Rhct]

\* error_handler that keeps the table buffer.
ErrorHandlerKeepsTable(gen, Table, m, Status, ub) ==
  [Status |-> Status, gen |-> [gen EXCEPT !.NodeIndexer = 0], Table |-> 0,
   m |-> IF gen.NodeIndexer # 0 THEN FreePool(m, gen.NodeIndexer) ELSE m,
   ub |-> ub]

\* error_handler of BuildRhctTable.
ErrorHandler(gen, Table, m, Status, ub) ==
  LET FreeTable(m1) == IF Table # 0 THEN FreePool(m1, Table) ELSE m1
  IN  [Status |-> Status, gen |-> [gen EXCEPT !.NodeIndexer = 0], Table |-> 0,
       m |-> FreeTable(IF gen.NodeIndexer # 0 THEN FreePool(m, gen.NodeIndexer) ELSE m),
       ub |-> ub]

\* BuildRhctTable, the size calculation: the table size, the offset of each
\* node group (0 where the code leaves the variable unset) and the indexer.
\* NodeSize and TableSize are UINT32.
RhctTableSizes(IsaList, CmoNodeList, RintcInfoNodeList, RhctNodeCount) ==
  LET IsaStringNodeCount == Len(IsaList)
      CmoNodeCount       == CmoListCount(CmoNodeList)
      HartInfoNodeCount  == Len(RintcInfoNodeList)
      Out(Status, TableSize, IsaStringOffset, CmoOffset, HartInfoOffset, Indexer) ==
        [Status          |-> Status,
         TableSize       |-> TableSize,
         IsaStringOffset |-> IF IsaStringNodeCount > 0 THEN IsaStringOffset ELSE W(0),
         CmoOffset       |-> IF CmoNodeCount > 0 THEN CmoOffset ELSE W(0),
         HartInfoOffset  |-> IF HartInfoNodeCount > 0 THEN HartInfoOffset ELSE W(0),
         Indexer         |-> Indexer]
      \* the check of the table size; Size0..Size3 are TableSize before the
      \* ISA node, the CMO group, the Hart Info group, and at the end
      Total(Size0, Size1, Size2, Size3, Indexer) ==
        Out(IF WGt(Size3, MAX_UINT32) THEN "EFI_INVALID_PARAMETER" ELSE "EFI_SUCCESS",
            Size3, Size0, Size1, Size2, Indexer)
      HartSized(Size0, Size1, Size2, NodeSize, Indexer) ==
        IF WGt(NodeSize, MAX_UINT32)
          THEN Out("EFI_INVALID_PARAMETER", Size2, Size0, Size1, Size2, Indexer)
          ELSE Total(Size0, Size1, Size2, U32(WAdd(Size2, NodeSize)), Indexer)
      HartGroup(Size0, Size1, Size2, r) ==
        HartSized(Size0, Size1, Size2, U32(r.Size), r.Indexer)
      Harts(Size0, Size1, Size2, Indexer) ==
        IF HartInfoNodeCount > 0
          THEN HartGroup(Size0, Size1, Size2,
                         GetSizeofHartInfoNodes(Size2, RintcInfoNodeList, HartInfoNodeCount,
                                                RhctNodeCount - HartInfoNodeCount, Indexer))
          ELSE Total(Size0, Size1, Size2, Size2, Indexer)
      CmoSized(Size0, Size1, NodeSize, Indexer) ==
        IF WGt(NodeSize, MAX_UINT32)
          THEN Out("EFI_INVALID_PARAMETER", Size1, Size0, Size1, W(0), Indexer)
          ELSE Harts(Size0, Size1, U32(WAdd(Size1, NodeSize)), Indexer)
      CmoGroup(Size0, Size1, r) == CmoSized(Size0, Size1, U32(r.Size), r.Indexer)
      Cmos(Size0, Size1, Indexer) ==
        IF CmoNodeCount > 0
          THEN CmoGroup(Size0, Size1,
                        GetSizeofCmoNodes(Size1, CmoNodeList, CmoNodeCount, Indexer))
          ELSE Harts(Size0, Size1, Size1, Indexer)
      IsaSized(Size0, r, Indexer) ==
        IF r.Status # "EFI_SUCCESS"
          THEN Out(r.Status, Size0, Size0, W(0), W(0), Indexer)
          ELSE Cmos(Size0, U32(WAdd(Size0, r.Size)), Indexer)
      Isa(Size0, Indexer) ==
        IF IsaStringNodeCount > 0
          THEN IsaSized(Size0, GetIsaStringNodeSize(IsaList[1]), Indexer)
          ELSE Cmos(Size0, Size0, Indexer)
  IN  Isa(W(RhctTableStructSize), [cap |-> RhctNodeCount, groups |-> <<>>])

\* BuildRhctTable from the allocation of the table buffer on.  s is the
\* result of the size calculation.
RhctTableWrite(gen, m, reg, s, tblOk, hdrOk, offOk) ==
  LET IsaStringNodeCount == Len(reg.isa)
      CmoNodeCount       == CmoListCount(reg.cmo)
      HartInfoNodeCount  == Len(reg.rintc)
      NumOffsets         == gen.RhctNodeCount - HartInfoNodeCount
      Rhct0 == [Size |-> s.TableSize, Length |-> W(0), NodeCount |-> 0, NodeOffset |-> 0,
                TimeBaseFreq |-> 0, Flags |-> 0, nodes |-> <<>>, oob |-> FALSE]
      \* the fields of the table set after the header
      Fields(Rhct) ==
        [Rhct EXCEPT
           !.NodeCount    = gen.RhctNodeCount,
           !.NodeOffset   = RhctTableStructSize,
           !.TimeBaseFreq = reg.timer.TimeBaseFrequency,
           !.Flags        = IF reg.timer.TimerCannotWakeCpu THEN 1 ELSE 0,
           !.oob          = ~InBounds(s.TableSize, W(0), W(RhctTableStructSize))]
      \* the entries stored into Offsets[]
      Written == (IF IsaStringNodeCount > 0 THEN <<s.IsaStringOffset>> ELSE <<>>)
                 \o (IF CmoNodeCount > 0 THEN <<s.CmoOffset>> ELSE <<>>)
      \* t the table allocation, mo the pool, a what AddHartInfoNodes
      \* returned, null whether a NULL Offsets was stored to or read
      Finish(t, mo, a, null) ==
        IF a.Status # "EFI_SUCCESS"
          THEN ErrorHandler(gen, t.ptr, mo, a.Status, a.Rhct.oob \/ null)
          ELSE [Status |-> "EFI_SUCCESS", gen |-> gen, Table |-> t.ptr,
                m |-> Store(mo, t.ptr, [kind |-> "Rhct", Rhct |-> a.Rhct]),
                ub |-> a.Rhct.oob \/ null]
      \* Offsets[] as AddHartInfoNodes reads it: what was allocated zeroed
      \* and then written, or what lies at address 0 when Offsets is NULL
      HartInfo(t, c, o, Offsets) ==
        Finish(t,
               IF o.ptr # 0 THEN Store(o.m, o.ptr, [kind |-> "Offsets", Offsets |-> Offsets])
                            ELSE o.m,
               IF HartInfoNodeCount > 0
                 THEN AddHartInfoNodes(c.Rhct, s.HartInfoOffset, NumOffsets, Offsets,
                                       reg.rintc, HartInfoNodeCount)
                 ELSE [Status |-> "EFI_SUCCESS", Rhct |-> c.Rhct],
               o.ptr = 0 /\ (Len(Written) > 0 \/ (HartInfoNodeCount > 0 /\ NumOffsets > 0)))
      OffsetsAllocated(t, c, o) ==
        HartInfo(t, c, o,
                 IF o.ptr # 0
                   THEN [vals |-> Written, zeros |-> NumOffsets - Len(Written), junk |-> 0]
                   ELSE [vals |-> Written, zeros |-> 0, junk |-> NumOffsets - Len(Written)])
      AfterCmo(t, c) ==
        IF c.Status # "EFI_SUCCESS"
          THEN ErrorHandler(gen, t.ptr, t.m, c.Status, c.Rhct.oob)
          ELSE OffsetsAllocated(t, c,
                 AllocateZeroPool(t.m, "Offsets", WMul(W(NumOffsets), SizeofUint32), offOk))
      AfterIsa(t, i) ==
        IF i.Status # "EFI_SUCCESS"
          THEN ErrorHandler(gen, t.ptr, t.m, i.Status, i.Rhct.oob)
          ELSE AfterCmo(t, IF CmoNodeCount > 0
                             THEN AddCmoNodes(i.Rhct, s.CmoOffset, reg.cmo, CmoNodeCount)
                             ELSE [Status |-> "EFI_SUCCESS", Rhct |-> i.Rhct])
      AfterHeader(t, h) ==
        IF h.Status # "EFI_SUCCESS"
          THEN ErrorHandler(gen, t.ptr, t.m, h.Status, FALSE)
          ELSE AfterIsa(t, IF IsaStringNodeCount > 0
                             THEN AddIsaStringNode(Fields(h.Rhct), s.IsaStringOffset,
                                                   reg.isa[1])
                             ELSE [Status |-> "EFI_SUCCESS", Rhct |-> Fields(h.Rhct)])
      TableAllocated(t) ==
        IF t.ptr = 0
          THEN ErrorHandler(gen, 0, t.m, "EFI_OUT_OF_RESOURCES", FALSE)
          ELSE AfterHeader(t, AddAcpiHeader(Rhct0, s.TableSize, hdrOk))
  IN  TableAllocated(AllocateZeroPool(m, "Table", s.TableSize, tblOk))

\* BuildRhctTable.  gen is the generator (its revisions and private data),
\* Table the caller's *Table, Revision the AcpiTableRevision asked for.  The
\* result's ub tells whether the call stored outside its table buffer or
\* through a NULL Offsets.
BuildRhctTable(gen, Table, m, reg, Revision, idxOk, tblOk, hdrOk, offOk) ==
  LET TimerStatus == GetObjectList(IF reg.timer.present THEN 1 ELSE 0)
      IsaStatus   == GetObjectList(Len(reg.isa))
      CmoStatus   == GetObjectList(CmoListCount(reg.cmo))
      HartStatus  == GetObjectList(Len(reg.rintc))
      RhctNodeCount == Len(reg.isa) + CmoListCount(reg.cmo) + Len(reg.rintc)
      \* gen1 the generator with its NodeIndexer set, mx the pool with the
      \* entries written, s the result of the size calculation
      Sized(gen1, mx, s) ==
        IF s.Status # "EFI_SUCCESS"
          THEN ErrorHandler(gen1, 0, mx, s.Status, FALSE)
          ELSE RhctTableWrite(gen1, mx, reg, s, tblOk, hdrOk, offOk)
      Size(x, s) ==
        Sized([gen EXCEPT !.RhctNodeCount = RhctNodeCount, !.NodeIndexer = x.ptr],
              Store(x.m, x.ptr, [kind |-> "NodeIndexer", Indexer |-> s.Indexer]), s)
      IndexerAllocated(x) ==
        IF x.ptr = 0
          THEN ErrorHandler(gen, 0, x.m, "EFI_OUT_OF_RESOURCES", FALSE)
          ELSE Size(x, RhctTableSizes(reg.isa, reg.cmo, reg.rintc, RhctNodeCount))
  IN  IF Revision < gen.MinAcpiTableRevision \/ Revision > gen.AcpiTableRevision
        THEN [Status |-> "EFI_INVALID_PARAMETER", gen |-> gen, Table |-> Table, m |-> m,
              ub |-> FALSE]
      ELSE IF TimerStatus # "EFI_SUCCESS"
        THEN ErrorHandler(gen, 0, m, TimerStatus, FALSE)
      ELSE IF IsaStatus # "EFI_SUCCESS"
        THEN ErrorHandler(gen, 0, m, IsaStatus, FALSE)
      ELSE IF CmoStatus # "EFI_SUCCESS" /\ CmoStatus # "EFI_NOT_FOUND"
        THEN ErrorHandler(gen, 0, m, CmoStatus, FALSE)
      ELSE IF HartStatus # "EFI_SUCCESS"
        THEN ErrorHandler(gen, 0, m, HartStatus, FALSE)
        ELSE IndexerAllocated(
               AllocateZeroPool(m, "NodeIndexer",
                                WMul(W(RhctNodeCount), SizeofNodeIndexer), idxOk))

\* FreeRhctTableResources that leaves the caller's pointer set.
FreeRhctTableResourcesKeepsPointer(gen, Table, m) ==
  LET FreeTable(gen1, m1) ==
        IF Table = 0
          THEN [Status |-> "EFI_INVALID_PARAMETER", gen |-> gen1, Table |-> Table,
                m |-> m1, ub |-> FALSE]
          ELSE [Status |-> "EFI_SUCCESS", gen |-> gen1, Table |-> Table,
                m |-> FreePool(m1, Table), ub |-> FALSE]
  IN  FreeTable([gen EXCEPT !.NodeIndexer = 0],
                IF gen.NodeIndexer # 0 THEN FreePool(m, gen.NodeIndexer) ELSE m)

\* FreeRhctTableResources.  The caller passes the address of its Table.
FreeRhctTableResources(gen, Table, m) ==
  LET FreeTable(gen1, m1) ==
        IF Table = 0
          THEN [Status |-> "EFI_INVALID_PARAMETER", gen |-> gen1, Table |-> Table,
                m |-> m1, ub |-> FALSE]
          ELSE [Status |-> "EFI_SUCCESS", gen |-> gen1, Table |-> 0,
                m |-> FreePool(m1, Table), ub |-> FALSE]
  IN  FreeTable([gen EXCEPT !.NodeIndexer = 0],
                IF gen.NodeIndexer # 0 THEN FreePool(m, gen.NodeIndexer) ELSE m)

\* ---------------------------------------------------------------- state
VARIABLES
  fdt,        \* the device tree: its "/cpus" node
  registry,   \* the configuration manager's object lists
  ProcUid,    \* STATIC UINT32 ProcUid of CpuNodeParser
  Generator,  \* RhctGenerator: supported revisions, RhctNodeCount, NodeIndexer
  Table,      \* the caller's table pointer, passed as Table to Build and Free
  heap,       \* the pool
  ExtIntcList, \* STATIC LIST_ENTRY ExtIntcList: the nodes linked to it
  lastCall,   \* the last call made: its arguments, status and pool calls
  firstRhct,  \* the table the first successful BuildRhctTable produced
  paired,     \* no BuildRhctTable was called on a table not yet released
  calls,      \* number of calls made
  halted      \* a call faulted

vars == <<fdt, registry, ProcUid, Generator, Table, heap, ExtIntcList, lastCall,
          firstRhct, paired, calls, halted>>

\* ------------------------------------------------------------ the inputs
\* The i-th hart: its "interrupt-controller" child has the phandle i.
CpuNode(i) ==
  [compatible |-> TRUE, regLen |-> 4, reg |-> <<16 + i>>, intc |-> TRUE, phandle |-> i]

Tree(AddressCells, cpus, strays, nodes) ==
  [present |-> TRUE, AddressCells |-> AddressCells, cpus |-> cpus, strays |-> strays,
   nodes |-> nodes]
Cpus(n) == [i \in 1..n |-> CpuNode(i)]

\* A "/cpus" node with n well-formed "cpu" children and no controller.
GoodTree(n) == Tree(1, Cpus(n), <<>>, <<>>)
\* The same with the last "cpu" lacking its "reg" property.
BadRegTree(n) ==
  Tree(1, [i \in 1..n |-> IF i = n THEN [CpuNode(i) EXCEPT !.regLen = 0, !.reg = <<>>]
                                   ELSE CpuNode(i)], <<>>, <<>>)
\* A tree without "/cpus".
NoCpusTree ==
  [present |-> FALSE, AddressCells |-> 1, cpus |-> <<>>, strays |-> <<>>, nodes |-> <<>>]

\* The i-th hart with a "reg" of len bytes.
RegCpu(i, len) ==
  [CpuNode(i) EXCEPT !.regLen = len, !.reg = IF len > 4 THEN <<0, 16 + i>> ELSE <<16 + i>>]
\* "cpu" nodes with a "reg" of len bytes, of lastLen bytes in the last.
RegLenTree(AddressCells, n, len, lastLen) ==
  Tree(AddressCells, [i \in 1..n |-> RegCpu(i, IF i = n THEN lastLen ELSE len)], <<>>, <<>>)
\* The last "cpu" without an "interrupt-controller" child.
NoIntcTree(n) ==
  Tree(1, [i \in 1..n |-> IF i = n THEN [CpuNode(i) EXCEPT !.intc = FALSE, !.phandle = 0]
                                   ELSE CpuNode(i)], <<>>, <<>>)
\* The last "cpu" of another "compatible" kind.
OtherCpuTree(n) ==
  Tree(1, [i \in 1..n |-> IF i = n THEN [CpuNode(i) EXCEPT !.compatible = FALSE]
                                   ELSE CpuNode(i)], <<>>, <<>>)

\* The trees without controllers: those whose "cpu" nodes are well formed
\* or lack a "reg", and those with a "cpu" node of another shape.
CpuTrees == {GoodTree(n) : n \in 0..MaxCpus} \cup {BadRegTree(MaxCpus), NoCpusTree}
OddCpuTrees ==
  {NoIntcTree(MaxCpus), OtherCpuTree(MaxCpus), RegLenTree(2, MaxCpus, 8, 8),
   RegLenTree(2, MaxCpus, 8, 4), RegLenTree(1, MaxCpus, 4, 8), RegLenTree(1, MaxCpus, 4, 2)}

\* The machine external interrupt of a hart's interrupt controller: an
\* interrupt number that is not IRQ_S_EXT.
IRQ_M_EXT == 11

\* The routing list of a controller wired to the harts 1..n: for each hart
\* the pairs (phandle, irq) for the interrupt numbers irqs.
RECURSIVE Routing(_, _)
Routing(n, irqs) ==
  IF n = 0 THEN <<>>
  ELSE Routing(n - 1, irqs) \o
       (IF Len(irqs) = 2 THEN <<n, irqs[1], n, irqs[2]>> ELSE <<n, irqs[1]>>)

Region(base, size) == Prop(<<0, base, 0, size>>)
PlicRegion == Region(201326592, 67108864)
AplicRegion(i) == Region(218103808 + i * 32768, 32768)
ImsicRegion(n) == Region(671088640, n * IMSIC_MMIO_PAGE_SZ)

Node(compatible, phandle, props) ==
  [compatible |-> compatible, phandle |-> phandle, props |-> props]

\* A PLIC with a machine and a supervisor context for each of n harts.
PlicNode(n) ==
  Node("riscv,plic0", 10,
       ("riscv,ndev" :> Prop(<<96>>)) @@ ("reg" :> PlicRegion)
         @@ ("interrupts-extended" :> Prop(Routing(n, <<IRQ_M_EXT, IRQ_S_EXT>>))))
\* An APLIC in direct mode wired to n harts at the level irq.
AplicNode(n, irq, phandle) ==
  Node("riscv,aplic", phandle,
       ("riscv,num-sources" :> Prop(<<64>>)) @@ ("reg" :> AplicRegion(phandle))
         @@ ("interrupts-extended" :> Prop(Routing(n, <<irq>>))))
\* An APLIC in MSI mode below the IMSIC with the phandle parent.
AplicMsiNode(parent, phandle) ==
  Node("riscv,aplic", phandle,
       ("riscv,num-sources" :> Prop(<<32>>)) @@ ("reg" :> AplicRegion(phandle))
         @@ ("msi-parent" :> Prop(<<parent>>)))
\* An IMSIC of n harts at the level irq, without "riscv,hart-index-bits".
ImsicNode(n, irq, phandle) ==
  Node("riscv,imsics", phandle,
       ("riscv,num-ids" :> Prop(<<255>>)) @@ ("reg" :> ImsicRegion(n))
         @@ ("interrupts-extended" :> Prop(Routing(n, <<irq>>))))
\* A node of no controller kind.
BusNode == Node("simple-bus", 30, "ranges" :> Prop(<<>>))

WithProp(node, name, P) == [node EXCEPT !.props = (name :> P) @@ @]
WithoutProp(node, name) ==
  [node EXCEPT !.props = [x \in DOMAIN @ \ {name} |-> @[x]]]

\* A hart node that is not a child named "cpu" of "/cpus".
StrayHart == [CpuNode(MaxCpus + 1) EXCEPT !.reg = <<99>>]
\* The routing of n harts with the stray one after them.
StrayRouting(n, irqs) ==
  Routing(n, irqs) \o (IF Len(irqs) = 2 THEN <<MaxCpus + 1, irqs[1], MaxCpus + 1, irqs[2]>>
                                        ELSE <<MaxCpus + 1, irqs[1]>>)

\* The trees with well-formed controllers: a PLIC; APLICs of both levels
\* around a bus and before a PLIC; IMSICs of both levels with an APLIC below
\* each; an IMSIC that states its "riscv,hart-index-bits".
PlicTree(n) == Tree(1, Cpus(n), <<>>, <<PlicNode(n)>>)
AplicTree(n) ==
  Tree(1, Cpus(n), <<>>,
       <<AplicNode(n, IRQ_M_EXT, 11), BusNode, AplicNode(n, IRQ_S_EXT, 12), PlicNode(n)>>)
ImsicTree(n) ==
  Tree(1, Cpus(n), <<>>,
       <<ImsicNode(n, IRQ_M_EXT, 20), ImsicNode(n, IRQ_S_EXT, 21), AplicMsiNode(20, 11),
         AplicMsiNode(21, 12)>>)
ImsicBitsTree(n) ==
  Tree(1, Cpus(n), <<>>,
       <<WithProp(ImsicNode(n, IRQ_S_EXT, 21), "riscv,hart-index-bits", Prop(<<5>>))>>)
\* An IMSIC of supervisor level before a PLIC.
ImsicPlicTree(n) == Tree(1, Cpus(n), <<>>, <<ImsicNode(n, IRQ_S_EXT, 21), PlicNode(n)>>)
ControllerTrees ==
  {PlicTree(MaxCpus), AplicTree(MaxCpus), ImsicBitsTree(MaxCpus), ImsicPlicTree(MaxCpus)}
    \cup {ImsicTree(n) : n \in 1..MaxCpus}

\* The cells of the "reg" of an IMSIC with the regions 1..r, 64 KiB apart,
\* of the sizes given in bytes.
RECURSIVE RegionCells(_, _)
RegionCells(sizes, r) ==
  IF r = 0 THEN <<>>
  ELSE RegionCells(sizes, r - 1) \o <<0, 671088640 + (r - 1) * 65536, 0, sizes[r]>>
\* An IMSIC of supervisor level wired to n harts, with regions of the sizes.
ImsicRegionsTree(n, sizes) ==
  Tree(1, Cpus(n), <<>>,
       <<WithProp(ImsicNode(n, IRQ_S_EXT, 21), "reg", Prop(RegionCells(sizes, Len(sizes))))>>)
\* IMSICs with a region of one page per hart; with a region of a page and a
\* half before one with a page per hart; with one region a page short.
RegionTrees ==
  {ImsicRegionsTree(MaxCpus, [r \in 1..MaxCpus |-> IMSIC_MMIO_PAGE_SZ]),
   ImsicRegionsTree(MaxCpus, <<IMSIC_MMIO_PAGE_SZ + IMSIC_MMIO_PAGE_SZ \div 2,
                               MaxCpus * IMSIC_MMIO_PAGE_SZ>>),
   ImsicRegionsTree(MaxCpus, <<(MaxCpus - 1) * IMSIC_MMIO_PAGE_SZ>>)}

\* The trees whose routing lists name the stray hart.
StrayTrees ==
  {Tree(1, Cpus(1), <<StrayHart>>,
        <<WithProp(ImsicNode(2, IRQ_S_EXT, 21), "interrupts-extended",
                   Prop(StrayRouting(1, <<IRQ_S_EXT>>)))>>),
   Tree(1, Cpus(1), <<StrayHart>>,
        <<WithProp(PlicNode(1), "interrupts-extended",
                   Prop(StrayRouting(1, <<IRQ_M_EXT, IRQ_S_EXT>>)))>>),
   Tree(1, Cpus(1), <<StrayHart>>,
        <<WithProp(AplicNode(1, IRQ_S_EXT, 12), "interrupts-extended",
                   Prop(StrayRouting(1, <<IRQ_S_EXT>>)))>>)}

\* The controllers with a malformed mandatory property: no source count, no
\* "reg", a "reg" of one 64-bit value, a "reg" of six bytes.
Malformed(node) ==
  {WithoutProp(WithoutProp(node, "riscv,ndev"), "riscv,num-sources"),
   WithoutProp(node, "reg"),
   WithProp(node, "reg", Prop(<<0, 201326592>>)),
   WithProp(node, "reg", RaggedProp(<<0, 201326592>>, 6))}
MalformedTrees ==
  {Tree(1, Cpus(1), <<>>, <<bad>>) : bad \in Malformed(PlicNode(1))}
    \cup {Tree(1, Cpus(1), <<>>,
                <<WithoutProp(AplicNode(1, IRQ_S_EXT, 12), "riscv,num-sources")>>)}

Trees ==
  CpuTrees \cup OddCpuTrees \cup ControllerTrees \cup RegionTrees \cup StrayTrees
    \cup MalformedTrees

\* The words tried for a word read past the end of a property: what follows
\* a property in the structure block is a token, that of the end of the
\* node or that of the next property among them.
JunkWords == {2, 3}

IsaChar(i) == IF i % 2 = 1 THEN "r" ELSE "v"
ShortIsa(n) == [chars |-> [i \in 1..n |-> IsaChar(i)], fill |-> 0]
LongIsa(n) == [chars |-> <<"r", "v">>, fill |-> n - 2]
\* The longest string whose ISA node fits 16 bits.
IsaMaxLen == ((MAX_UINT16 - RhctIsaStringNodeSize) \div 2) * 2 - 1

\* The ISA string lists of the registry: none, or one string.
IsaLists ==
  {<<>>} \cup {<<ShortIsa(n)>> : n \in 0..MaxStrLen}
         \cup {<<LongIsa(IsaMaxLen)>>, <<LongIsa(IsaMaxLen + 1)>>}

CmoObj(i) == [CbomBlockSize |-> i, CbopBlockSize |-> i + 1, CbozBlockSize |-> i + 2]
CmoList(n) == [objs |-> [i \in 1..n |-> CmoObj(i)], fill |-> 0]
BigCmoList(n) == [objs |-> <<CmoObj(1)>>, fill |-> n - 1]
\* The least counts for which the CMO group exceeds 16 bits, a Hart Info
\* node next to one ISA node exceeds 16 bits, and the CMO group reaches 32
\* bits.
CmoOver16 == (MAX_UINT16 \div RhctCmoNodeSize) + 1
CmoHartOver16 == ((MAX_UINT16 - RhctHartInfoNodeSize) \div SizeofUint32)
CmoOver32 == (TwoTo16 \div RhctCmoNodeSize) * TwoTo16

CmoLists == {CmoList(n) : n \in 0..MaxCmoObjs}
BigCmoLists == {BigCmoList(CmoOver16), BigCmoList(CmoHartOver16), BigCmoList(CmoOver32)}

\* The timer object of the registry, present or not.
Timer(b) == [present |-> b, TimeBaseFrequency |-> 10000000, TimerCannotWakeCpu |-> b]

\* The registries a platform starts with, before any hart is registered:
\* every ISA list with every short CMO list, the long CMO lists, and a
\* registry without the timer object.
Registries ==
  [timer : {Timer(TRUE)}, isa : IsaLists, cmo : CmoLists, rintc : {<<>>},
   plic : {<<>>}, aplic : {<<>>}, imsic : {<<>>}]
    \cup [timer : {Timer(TRUE)}, isa : {<<ShortIsa(MaxStrLen)>>}, cmo : BigCmoLists,
          rintc : {<<>>}, plic : {<<>>}, aplic : {<<>>}, imsic : {<<>>}]
    \cup [timer : {Timer(FALSE)}, isa : {<<ShortIsa(MaxStrLen)>>},
          cmo : {CmoList(MaxCmoObjs)}, rintc : {<<>>}, plic : {<<>>}, aplic : {<<>>},
          imsic : {<<>>}]

\* What a call that is not the dispatcher's says of the dispatcher's parts.
NoParts ==
  [Cpus |-> [Status |-> "", Buffer |-> <<>>, Bytes |-> <<>>], Imsic |-> "",
   PlicAplic |-> "", Added |-> <<>>, Writes |-> <<>>, Enriched |-> <<>>]

NoCall ==
  [op |-> "none", Status |-> "EFI_SUCCESS", Revision |-> 0, Harts |-> <<>>,
   prev |-> [op |-> "none", Status |-> "EFI_SUCCESS"],
   preIndexer |-> 0, preTable |-> 0, preLive |-> {},
   reqs |-> <<>>, frees |-> <<>>, badFrees |-> 0, ub |-> FALSE,
   Parts |-> NoParts]

\* The platforms: every tree without controllers and with "cpu" nodes of the
\* usual shape with the plain registry, every registry with the tree of
\* MaxCpus harts, and every other tree with a registry that holds none of the
\* objects of the RHCT.
PlainRegistry ==
  [timer |-> Timer(TRUE), isa |-> <<ShortIsa(MaxStrLen)>>, cmo |-> CmoList(MaxCmoObjs),
   rintc |-> <<>>, plic |-> <<>>, aplic |-> <<>>, imsic |-> <<>>]
BareRegistry ==
  [timer |-> Timer(FALSE), isa |-> <<>>, cmo |-> CmoList(0), rintc |-> <<>>,
   plic |-> <<>>, aplic |-> <<>>, imsic |-> <<>>]
Platforms ==
  {<<t, PlainRegistry>> : t \in CpuTrees}
    \cup {<<GoodTree(MaxCpus), r>> : r \in Registries}
    \cup {<<t, BareRegistry>> : t \in Trees \ CpuTrees}

Init ==
  /\ \E p \in Platforms : fdt = p[1] /\ registry = p[2]
  /\ ProcUid = 0
  /\ Generator = [AcpiTableRevision    |-> RHCT_TABLE_REVISION,
                  MinAcpiTableRevision |-> RHCT_TABLE_REVISION,
                  RhctNodeCount        |-> 0,
                  NodeIndexer          |-> 0]
  /\ Table = 0
  /\ heap = <<>>
  /\ ExtIntcList = <<0>>
  /\ lastCall = NoCall
  /\ firstRhct = [kind |-> "none"]
  /\ paired = TRUE
  /\ calls = 0
  /\ halted = FALSE

\* The pool record a call starts with.
Pool == [heap |-> heap, reqs |-> <<>>, frees |-> <<>>, badFrees |-> 0]

Call(op, r, ub, Revision, Harts, Parts) ==
  [op |-> op, Status |-> r.Status, Revision |-> Revision, Harts |-> Harts,
   prev |-> [op |-> lastCall.op, Status |-> lastCall.Status],
   preIndexer |-> Generator.NodeIndexer, preTable |-> Table, preLive |-> DOMAIN heap,
   reqs |-> r.m.reqs, frees |-> r.m.frees, badFrees |-> r.m.badFrees, ub |-> ub,
   Parts |-> Parts]

\* --------------------------------------------------------------- actions
\* A call of RiscVIntcDispatcher; at most one of its allocations or one of
\* the registry's two services fails, and a word read past the end of a
\* property is any of JunkWords.
Dispatch ==
  /\ ~halted /\ calls < MaxCalls
  /\ \E fail \in {"none", "RintcInfoBuffer", "CmObjDesc", "AddMultipleCmObj",
                  "ExtIntcNode", "PlicAplicInfo", "AddSingleCmObj"},
        junk \in JunkWords :
       LET Returned(r) ==
             /\ registry' = r.reg
             /\ ProcUid' = r.ProcUid
             /\ heap' = r.m.heap
             /\ ExtIntcList' = r.List
             /\ lastCall' = Call("Dispatch", r, FALSE, 0, r.Harts,
                                 [Cpus |-> r.Cpus, Imsic |-> r.Imsic,
                                  PlicAplic |-> r.PlicAplic, Added |-> r.Added,
                                  Writes |-> r.Writes, Enriched |-> r.Enriched])
       IN  Returned(RiscVIntcDispatcher(fdt, Pool, registry, ExtIntcList, ProcUid,
                                        fail # "RintcInfoBuffer", fail # "CmObjDesc",
                                        fail # "AddMultipleCmObj",
                                        [junk   |-> junk,
                                         extOk  |-> fail # "ExtIntcNode",
                                         infoOk |-> fail # "PlicAplicInfo",
                                         addOk  |-> fail # "AddSingleCmObj"]))
  /\ calls' = calls + 1
  /\ UNCHANGED <<fdt, Generator, Table, firstRhct, paired, halted>>

\* A call of BuildRhctTable (&Table); at most one of its allocations or the
\* header writer fails.  A call that stored out of bounds or through NULL
\* either faults or goes on.
Build ==
  /\ ~halted /\ calls < MaxCalls
  /\ \E Revision \in {RHCT_TABLE_REVISION, RHCT_TABLE_REVISION + 1},
        fail \in {"none", "NodeIndexer", "Table", "AddAcpiHeader", "Offsets"},
        fault \in BOOLEAN :
       LET Returned(r) ==
             /\ fault => r.ub
             /\ Generator' = r.gen
             /\ Table' = r.Table
             /\ heap' = r.m.heap
             /\ halted' = fault
             /\ lastCall' = Call("Build",
                                 IF fault THEN [r EXCEPT !.Status = "FAULT"] ELSE r,
                                 r.ub, Revision, <<>>, NoParts)
             /\ firstRhct' = IF firstRhct.kind = "none" /\ r.Status = "EFI_SUCCESS" /\ ~r.ub
                               THEN r.m.heap[r.Table].data
                               ELSE firstRhct
       IN  /\ Revision # RHCT_TABLE_REVISION => fail = "none" /\ ~fault
           /\ Returned(BuildRhctTable(Generator, Table, Pool, registry, Revision,
                                      fail # "NodeIndexer", fail # "Table",
                                      fail # "AddAcpiHeader", fail # "Offsets"))
  /\ paired' = (paired /\ Table = 0)
  /\ calls' = calls + 1
  /\ UNCHANGED <<fdt, registry, ProcUid, ExtIntcList>>

\* A call of FreeRhctTableResources (&Table).
Free ==
  /\ ~halted /\ calls < MaxCalls
  /\ LET Returned(r) ==
           /\ Generator' = r.gen
           /\ Table' = r.Table
           /\ heap' = r.m.heap
           /\ lastCall' = Call("Free", r, FALSE, 0, <<>>, NoParts)
     IN  Returned(FreeRhctTableResources(Generator, Table, Pool))
  /\ calls' = calls + 1
  /\ UNCHANGED <<fdt, registry, ProcUid, ExtIntcList, firstRhct, paired, halted>>

\* A call of FdtFreeExtIntcList ().  Reading through the NULL link of a head
\* that was never initialised stops the process with a fault, or goes on
\* with the list and the pool as they were.
FreeExtIntcList ==
  /\ ~halted /\ calls < MaxCalls
  /\ \E fault \in BOOLEAN :
       LET Returned(r) ==
             /\ fault => r.ub
             /\ heap' = r.m.heap
             /\ ExtIntcList' = r.List
             /\ halted' = fault
             /\ lastCall' = Call("FreeExtIntcList",
                                 IF fault THEN [r EXCEPT !.Status = "FAULT"] ELSE r,
                                 r.ub, 0, <<>>, NoParts)
       IN  Returned(FdtFreeExtIntcList(Pool, ExtIntcList))
  /\ calls' = calls + 1
  /\ UNCHANGED <<fdt, registry, ProcUid, Generator, Table, firstRhct, paired>>

Next == Dispatch \/ Build \/ Free \/ FreeExtIntcList

Spec == Init /\ [][Next]_vars

\* ============================================================ properties
\* What the properties speak of, read off the last call.
BuildReturned == lastCall.op = "Build" /\ lastCall.Status # "FAULT"
BuildSucceeded == BuildReturned /\ lastCall.Status = "EFI_SUCCESS"
BuildFailed == BuildReturned /\ lastCall.Status # "EFI_SUCCESS"
\* The blocks the last call obtained for a purpose.
Obtained(tag) == {lastCall.reqs[i].ptr : i \in {j \in DOMAIN lastCall.reqs :
                     lastCall.reqs[j].tag = tag /\ lastCall.reqs[j].ptr # 0}}
\* The sizes the last call asked the pool for, for a purpose.
Requested(tag) == {lastCall.reqs[i].size : i \in {j \in DOMAIN lastCall.reqs :
                      lastCall.reqs[j].tag = tag}}
BuiltRhct == heap[Table].data.Rhct

\* ---- C1: running the pipeline (extract, build) again on the unmodified
\* tree yields the same table: every successful build that stayed within
\* defined behaviour produces the table the first one produced, the UID of
\* each Hart-Info node included.
C1_PipelineIdempotent ==
  (BuildSucceeded /\ ~lastCall.ub) => heap[Table].data = firstRhct

\* ---- C2: the hart-identifier counter is call-scoped: every successful
\* invocation of the dispatcher gives the i-th hart (from 0) the UID i.
C2_UidCallScoped ==
  (lastCall.op = "Dispatch" /\ lastCall.Status = "EFI_SUCCESS")
    => \A i \in DOMAIN lastCall.Harts : lastCall.Harts[i].AcpiProcessorUid = i - 1

\* ---- C3: whenever BuildRhctTable returns a failure status the caller's
\* table pointer is NULL on return.
C3_TableNullOnFailure == BuildFailed => Table = 0

\* ---- C4: a BuildRhctTable that fails after it allocated the node index
\* releases the index and, if allocated, the output buffer exactly once each,
\* leaves Generator->NodeIndexer and the caller's pointer NULL, and when it
\* failed before the output buffer was allocated it leaves the pool as it
\* found it.
C4_Rollback ==
  (BuildFailed /\ Obtained("NodeIndexer") # {}) =>
      /\ \A p \in Obtained("NodeIndexer") \cup Obtained("Table") :
            Occurrences(lastCall.frees, p) = 1 /\ p \notin DOMAIN heap
      /\ lastCall.badFrees = 0
      /\ Generator.NodeIndexer = 0
      /\ Table = 0
      /\ (Obtained("Table") = {} => DOMAIN heap = lastCall.preLive)
\* A build that failed with its index and its output buffer allocated.
C4_Witness ==
  /\ BuildFailed
  /\ Obtained("NodeIndexer") # {} /\ Obtained("Table") # {}
  /\ Len(lastCall.frees) = 2

\* ---- C5: releasing twice.  The release that follows a successful release
\* of the same table.
SecondFree ==
  /\ lastCall.op = "Free"
  /\ lastCall.prev = [op |-> "Free", Status |-> "EFI_SUCCESS"]
\* As stated: the second release is a safe no-op, frees nothing again and
\* reports no error.
C5_SecondFreeReportsNoError ==
  SecondFree => /\ lastCall.frees = <<>>
                /\ lastCall.Status = "EFI_SUCCESS"
\* As the code has it: the release after a successful build frees the index
\* and the table once each and NULLs both pointers; the second release frees
\* nothing and changes neither pointer nor the pool, and returns
\* EFI_INVALID_PARAMETER because the table pointer is already NULL; no call
\* ever frees a block that is not allocated.
C5_SecondFreeNoOp ==
  /\ lastCall.badFrees = 0
  /\ (lastCall.op = "Free" /\ lastCall.prev = [op |-> "Build", Status |-> "EFI_SUCCESS"])
       => /\ lastCall.Status = "EFI_SUCCESS"
          /\ lastCall.preIndexer # 0 /\ lastCall.preTable # 0
          /\ lastCall.frees = <<lastCall.preIndexer, lastCall.preTable>>
          /\ Generator.NodeIndexer = 0 /\ Table = 0
          /\ DOMAIN heap = lastCall.preLive \ {lastCall.preIndexer, lastCall.preTable}
  /\ SecondFree
       => /\ lastCall.Status = "EFI_INVALID_PARAMETER"
          /\ lastCall.frees = <<>>
          /\ lastCall.preIndexer = 0 /\ lastCall.preTable = 0
          /\ Generator.NodeIndexer = 0 /\ Table = 0
          /\ DOMAIN heap = lastCall.preLive
\* A second release has returned.
C5_Witness == SecondFree /\ lastCall.Status = "EFI_INVALID_PARAMETER"

\* ---- C6: under the calling discipline (a build either fails or is followed
\* by a release before the next build) every block the generator allocated
\* (index, output buffer, Hart-Info offsets array) has been released once
\* nothing is owed: no generator block is outstanding.
C6_NoOutstandingAllocation ==
  (paired /\ ~halted /\ Table = 0 /\ lastCall.op \in {"Build", "Free"})
    => LiveOf(heap, GeneratorTags) = {}

\* ---- C7: when the CMO group needs more than 65535 bytes, BuildRhctTable
\* fails with EFI_INVALID_PARAMETER once it sizes the group and never asks
\* for the output buffer.
CmoGroupBytes == WMul(W(CmoListCount(registry.cmo)), RhctCmoNodeSize)
C7_CmoGroupCeiling ==
  (BuildReturned /\ WGt(CmoGroupBytes, W(MAX_UINT16)))
    => /\ Requested("Table") = {}
       /\ Obtained("NodeIndexer") # {} => lastCall.Status = "EFI_INVALID_PARAMETER"

\* ---- C8: the 16-bit ceiling of a single node is enforced while planning:
\* an ISA node or a Hart-Info node (fixed part + 4 x offset count) above
\* 65535 bytes makes BuildRhctTable return EFI_INVALID_PARAMETER before it
\* asks for the output buffer, and every Length written into a built table
\* is the node's true size.
IsaNodeBytes ==
  W(RhctIsaStringNodeSize + AsciiStrLen(registry.isa[1]) + 1
      + ((AsciiStrLen(registry.isa[1]) + 1) % 2))
HartNodeOffsetCount == Len(registry.isa) + CmoListCount(registry.cmo)
HartNodeBytes == WAdd(W(RhctHartInfoNodeSize), WMul(W(HartNodeOffsetCount), SizeofUint32))
BuildSized ==
  /\ BuildReturned /\ Obtained("NodeIndexer") # {}
  /\ registry.isa # <<>> /\ registry.rintc # <<>>
NodeBytes(n) ==
  IF n.Type = NODE_TYPE_ISA_STRING THEN IsaNodeBytes
  ELSE IF n.Type = NODE_TYPE_CMO THEN W(RhctCmoNodeSize)
  ELSE HartNodeBytes
C8_NodeCeilingWhilePlanning ==
  /\ (BuildSized /\ (WGt(IsaNodeBytes, W(MAX_UINT16)) \/ WGt(HartNodeBytes, W(MAX_UINT16))))
       => /\ lastCall.Status = "EFI_INVALID_PARAMETER"
          /\ Requested("Table") = {}
  /\ BuildSucceeded
       => \A i \in DOMAIN BuiltRhct.nodes :
             W(BuiltRhct.nodes[i].Length) = NodeBytes(BuiltRhct.nodes[i])

\* ---- C9: a grand total above the 32-bit ceiling makes BuildRhctTable fail
\* with EFI_INVALID_PARAMETER, and the size handed to the allocator is never
\* smaller than the true sum of the header and all node sizes.
TrueTableBytes ==
  WAdd(WAdd(W(RhctTableStructSize), IsaNodeBytes),
       WAdd(CmoGroupBytes, WMul(HartNodeBytes, Len(registry.rintc))))
C9_GrandTotalCeiling ==
  BuildSized
    => /\ WGt(TrueTableBytes, MAX_UINT32)
            => lastCall.Status = "EFI_INVALID_PARAMETER" /\ Requested("Table") = {}
       /\ \A size \in Requested("Table") : WLeq(TrueTableBytes, size)

\* ---- C10: the ISA node of a built table.
IsaNode == BuiltRhct.nodes[1]
IsaStringStored ==
  /\ IsaNode.Type = NODE_TYPE_ISA_STRING
  /\ IsaNode.IsaString.chars = registry.isa[1].chars
  /\ IsaNode.IsaString.fill = registry.isa[1].fill
  /\ IsaNode.IsaString.zeros >= 1
Align2(n) == n + (n % 2)
\* As stated: Length = 5 + align2(strlen(S) + 1), and the stored string is S
\* followed by a NUL.
C10_IsaLengthFromHeader ==
  BuildSucceeded
    => /\ IsaNode.Length = RhctNodeHeaderSize + Align2(AsciiStrLen(registry.isa[1]) + 1)
       /\ IsaStringStored
\* As the code has it: Length = the size of the ISA string node structure
\* (node header and the string-length field) + align2(strlen(S) + 1), and the
\* stored string is S followed by a NUL.
C10_IsaLengthFromNodeStruct ==
  BuildSucceeded
    => /\ IsaNode.Length = RhctIsaStringNodeSize + Align2(AsciiStrLen(registry.isa[1]) + 1)
       /\ IsaStringStored
\* A table built from the longest ISA string accepted.
C10_Witness ==
  /\ BuildSucceeded
  /\ AsciiStrLen(registry.isa[1]) = IsaMaxLen
  /\ IsaNode.Length = MAX_UINT16

\* ------------------------------------------- properties of the extraction
DispatchReturned == lastCall.op = "Dispatch"
DispatchSucceeded == DispatchReturned /\ lastCall.Status = "EFI_SUCCESS"
\* The pool and the registry served the last call.
Served == lastCall.Status # "EFI_OUT_OF_RESOURCES" /\ \A i \in DOMAIN lastCall.reqs : lastCall.reqs[i].ptr # 0

ControllerKinds == PlicCompatibleInfo \cup AplicCompatibleInfo \cup ImsicCompatibleInfo
\* The tree has a "/cpus" with at least one "cpu", every "cpu" is of the
\* known kind, has an "interrupt-controller" child and a "reg" of the width
\* of #address-cells.
ValidHarts ==
  /\ fdt.present /\ fdt.AddressCells >= 0 /\ Len(fdt.cpus) >= 1
  /\ \A i \in DOMAIN fdt.cpus :
       /\ fdt.cpus[i].compatible /\ fdt.cpus[i].intc
       /\ fdt.cpus[i].regLen = (IF fdt.AddressCells = 2 THEN 8 ELSE 4)
NoController ==
  \A i \in DOMAIN fdt.nodes : fdt.nodes[i].compatible \notin ControllerKinds

IsHartInfoNode(n) == n.Type = NODE_TYPE_HART_INFO
IsCmoNode(n) == n.Type = NODE_TYPE_CMO
HartInfoNodes == SelectSeq(BuiltRhct.nodes, IsHartInfoNode)
CmoNodes == SelectSeq(BuiltRhct.nodes, IsCmoNode)

\* ---- C11: on a valid tree with N >= 1 harts and no PLIC, APLIC or IMSIC
\* node the extraction succeeds whenever the pool and the registry serve it,
\* and registers N hart records with ExtIntcId 0; a table built from them
\* has exactly one Hart-Info node per record, in list order and with the
\* record's UID, and has a CMO node only if the registry holds CMO objects.
C11_NoControllerPlatform ==
  (ValidHarts /\ NoController)
    => /\ (DispatchReturned /\ Served)
            => /\ lastCall.Status = "EFI_SUCCESS"
               /\ Len(lastCall.Harts) = Len(fdt.cpus)
               /\ registry.rintc = lastCall.Harts
               /\ \A i \in DOMAIN lastCall.Harts : lastCall.Harts[i].ExtIntcId = 0
       /\ (BuildSucceeded /\ ~lastCall.ub /\ Len(registry.rintc) = Len(fdt.cpus))
            => /\ Len(HartInfoNodes) = Len(fdt.cpus)
               /\ \A j \in DOMAIN HartInfoNodes :
                    HartInfoNodes[j].Uid = registry.rintc[j].AcpiProcessorUid
               /\ Len(CmoNodes) > 0 => CmoListCount(registry.cmo) > 0
\* A table built for MaxCpus harts, extracted twice, without CMO objects.
C11_Witness ==
  /\ ValidHarts /\ NoController /\ Len(fdt.cpus) = MaxCpus
  /\ BuildSucceeded /\ ~lastCall.ub
  /\ Len(registry.rintc) = MaxCpus
  /\ registry.rintc[1].AcpiProcessorUid = MaxCpus
  /\ CmoListCount(registry.cmo) = 0

\* The controller records the last call registered, in the order of their
\* registration, without the IMSIC's.
IsControllerRecord(a) == a.Kind \in {"plic", "aplic"}
ControllerRecords == SelectSeq(lastCall.Parts.Added, IsControllerRecord)
CommonOf(k) == ControllerRecords[k].Info.PlicAplicCommonInfo

\* What the tree says of its node i: the cells of its routing list, whether
\* the first pair of that list names the supervisor external interrupt, and
\* whether it is an APLIC of supervisor level: one whose own list does, or
\* whose "msi-parent" is the phandle of a node whose list does.
RoutingOf(i) ==
  IF "interrupts-extended" \in DOMAIN fdt.nodes[i].props
    THEN fdt.nodes[i].props["interrupts-extended"].Data ELSE <<>>
FirstTargetIsSExt(i) == Len(RoutingOf(i)) >= 2 /\ RoutingOf(i)[2] = IRQ_S_EXT
IsSModeAplic(i) ==
  /\ fdt.nodes[i].compatible = "riscv,aplic"
  /\ \/ FirstTargetIsSExt(i)
     \/ /\ "msi-parent" \in DOMAIN fdt.nodes[i].props
        /\ \E j \in DOMAIN fdt.nodes :
             /\ fdt.nodes[j].phandle = fdt.nodes[i].props["msi-parent"].Data[1]
             /\ FirstTargetIsSExt(j)
IsMModeAplic(i) == fdt.nodes[i].compatible = "riscv,aplic" /\ ~IsSModeAplic(i)
IsPlic(i) == fdt.nodes[i].compatible = "riscv,plic0"
\* The nodes that qualify, in traversal order.
RECURSIVE QualifyingFrom(_)
QualifyingFrom(i) ==
  IF i > Len(fdt.nodes) THEN <<>>
  ELSE (IF IsPlic(i) \/ IsSModeAplic(i) THEN <<i>> ELSE <<>>) \o QualifyingFrom(i + 1)
Qualifying == QualifyingFrom(1)
\* The sum of NumSources of the records before the k-th.
RECURSIVE SourcesBefore(_)
SourcesBefore(k) ==
  IF k <= 1 THEN 0 ELSE SourcesBefore(k - 1) + CommonOf(k - 1).NumSources
\* PlicAplicInfoParser went through the whole tree.
ControllersParsed == DispatchReturned /\ lastCall.Parts.PlicAplic = "EFI_SUCCESS"

\* ---- C12: an APLIC-compatible node yields a controller record and hart
\* back-annotation if and only if it is of supervisor level (its own
\* interrupts-extended, or that of the node its msi-parent names, has the
\* supervisor external interrupt in its first pair): the records are those of
\* the PLICs and the supervisor-level APLICs, in traversal order; a
\* machine-level APLIC is passed by without error, no hart is annotated from
\* it, and it takes neither a sequence id nor a range of global interrupts.
C12_AplicPrivilegeFilter ==
  ControllersParsed
    => /\ Len(ControllerRecords) = Len(Qualifying)
       /\ \A k \in DOMAIN ControllerRecords :
            /\ ControllerRecords[k].Kind =
                 (IF IsPlic(Qualifying[k]) THEN "plic" ELSE "aplic")
            /\ CommonOf(k).BaseAddress =
                 <<fdt.nodes[Qualifying[k]].props["reg"].Data[1],
                   fdt.nodes[Qualifying[k]].props["reg"].Data[2]>>
            /\ CommonOf(k).Id = k - 1
            /\ CommonOf(k).GsiBase = SourcesBefore(k)
       /\ \A w \in DOMAIN lastCall.Parts.Writes :
            /\ lastCall.Parts.Writes[w].Id < Len(Qualifying)
            /\ \E c \in DOMAIN RoutingOf(Qualifying[lastCall.Parts.Writes[w].Id + 1]) :
                 /\ c % 2 = 1
                 /\ RoutingOf(Qualifying[lastCall.Parts.Writes[w].Id + 1])[c]
                      = lastCall.Parts.Writes[w].Phandle
\* A tree with a machine-level APLIC before a supervisor-level one, parsed to
\* the end, the harts annotated.
C12_Witness ==
  /\ DispatchSucceeded /\ ControllersParsed
  /\ \E i, j \in DOMAIN fdt.nodes : i < j /\ IsMModeAplic(i) /\ IsSModeAplic(j)
  /\ \E k \in DOMAIN ControllerRecords : ControllerRecords[k].Kind = "aplic"
  /\ \A h \in DOMAIN lastCall.Harts : lastCall.Harts[h].ExtIntcId # 0

\* The hart builder returned a descriptor of the hart records.
HartsBuilt == DispatchReturned /\ lastCall.Parts.Cpus.Status = "EFI_SUCCESS"
\* The last call did not register the hart list.
NotPublished == lastCall.Harts = <<>>

IsSModeImsic(i) == fdt.nodes[i].compatible = "riscv,imsics" /\ FirstTargetIsSExt(i)
\* The hardware thread id the tree gives a hart whose "reg" has the width of
\* #address-cells.
HartIdOf(hart) ==
  IF fdt.AddressCells = 2 THEN <<hart.reg[1], hart.reg[2]>> ELSE <<0, hart.reg[1]>>
WidthOfCells == IF fdt.AddressCells = 2 THEN 8 ELSE 4
\* The list of node i routes the supervisor external interrupt of a hart
\* that is no "cpu" child of "/cpus" and has the id of none.
RoutesToStray(i) ==
  \E s \in DOMAIN fdt.strays, c \in DOMAIN RoutingOf(i) :
    /\ c % 2 = 1 /\ c < Len(RoutingOf(i))
    /\ RoutingOf(i)[c] = fdt.strays[s].phandle
    /\ RoutingOf(i)[c + 1] = IRQ_S_EXT
    /\ fdt.strays[s].intc /\ fdt.strays[s].regLen = WidthOfCells
    /\ \A h \in DOMAIN fdt.cpus :
         fdt.cpus[h].regLen = WidthOfCells
           => HartIdOf(fdt.cpus[h]) # HartIdOf(fdt.strays[s])

\* ---- C13: when a reference in the routing list of a qualifying IMSIC node,
\* or of a PLIC or supervisor-level APLIC, resolves to a hart that has no
\* record in the hart list, the dispatcher returns an error and the hart
\* list is not registered.
C13_UnresolvedHartFails ==
  (HartsBuilt /\ fdt.AddressCells >= 0
     /\ \E i \in DOMAIN fdt.nodes :
          (IsSModeImsic(i) \/ IsPlic(i) \/ IsSModeAplic(i)) /\ RoutesToStray(i))
    => lastCall.Status # "EFI_SUCCESS" /\ NotPublished

\* The node i lacks a mandatory property of a controller: it has neither
\* source count, or no "reg", or a "reg" that is not 16 bytes long.
MalformedController(i) ==
  \/ {"riscv,num-sources", "riscv,ndev"} \cap DOMAIN fdt.nodes[i].props = {}
  \/ "reg" \notin DOMAIN fdt.nodes[i].props
  \/ fdt.nodes[i].props["reg"].Len # 16

\* ---- C14: when the first qualifying PLIC or APLIC node lacks both source
\* count properties, or has no "reg" or one that is not 16 bytes long,
\* PlicAplicInfoParser returns EFI_INVALID_PARAMETER, the dispatcher returns
\* it, and the hart list is released without being registered.
C14_MalformedControllerAborts ==
  (HartsBuilt /\ lastCall.Parts.PlicAplic # ""
     /\ Len(Qualifying) > 0 /\ MalformedController(Qualifying[1]))
    => /\ lastCall.Parts.PlicAplic = "EFI_INVALID_PARAMETER"
       /\ lastCall.Status = "EFI_INVALID_PARAMETER"
       /\ NotPublished
       /\ \A p \in Obtained("CmObjDesc") : Occurrences(lastCall.frees, p) = 1

\* The loop of the hart builder reached every "cpu" node: the buffer was
\* served, every node is of the known kind and has a "reg" of 4 or 8 bytes.
AllCpusParsed ==
  /\ DispatchReturned /\ fdt.present /\ fdt.AddressCells >= 0
  /\ Obtained("RintcInfoBuffer") # {}
  /\ \A i \in DOMAIN fdt.cpus : fdt.cpus[i].compatible /\ fdt.cpus[i].regLen \in {4, 8}

\* ---- C15: when a "cpu" node has no "interrupt-controller" child the hart
\* builder fails with EFI_ABORTED and the call produces no hart list.
C15_MissingIntcAborts ==
  (AllCpusParsed /\ \E i \in DOMAIN fdt.cpus : ~fdt.cpus[i].intc)
    => /\ lastCall.Parts.Cpus.Status = "EFI_ABORTED"
       /\ lastCall.Status = "EFI_ABORTED"
       /\ NotPublished

\* The nodes of "/cpus" before the first one the loop of the hart builder
\* stops at are of the known kind and have a "reg" of 4 or 8 bytes.
CpuParses(i) == fdt.cpus[i].compatible /\ fdt.cpus[i].regLen \in {4, 8}
\* The hart builder ran on the "/cpus" node of the tree.
HartBuilderRan == DispatchReturned /\ fdt.present /\ fdt.AddressCells >= 0
\* The blocks the last call asked the pool for, for a purpose, served or not.
Asked(tag) == {j \in DOMAIN lastCall.reqs : lastCall.reqs[j].tag = tag}

\* What the hart builder did in the last call.
CpusBuilt == lastCall.Parts.Cpus

\* ---- C16: the hart builder returns one record per "cpu" child of "/cpus",
\* in the order of the children, each enabled and with ExtIntcId 0; without
\* a "cpu" child it fails with EFI_NOT_FOUND before asking for a buffer, at
\* a child of another kind it fails with EFI_UNSUPPORTED, and on every path
\* the one buffer it obtained is released exactly once.
C16_HartBuilder ==
  HartBuilderRan =>
        /\ Len(fdt.cpus) = 0
             => CpusBuilt.Status = "EFI_NOT_FOUND" /\ Asked("RintcInfoBuffer") = {}
        /\ Len(fdt.cpus) > 0 => Cardinality(Asked("RintcInfoBuffer")) = 1
        /\ (/\ Obtained("RintcInfoBuffer") # {}
            /\ \E i \in DOMAIN fdt.cpus :
                 ~fdt.cpus[i].compatible /\ \A j \in 1..(i - 1) : CpuParses(j))
             => CpusBuilt.Status = "EFI_UNSUPPORTED" /\ lastCall.Status = "EFI_UNSUPPORTED"
        /\ CpusBuilt.Status = "EFI_SUCCESS"
             => /\ Len(CpusBuilt.Buffer) = Len(fdt.cpus)
                /\ \A i \in DOMAIN fdt.cpus :
                     /\ CpusBuilt.Buffer[i].Flags = RINTC_FLAG_ENABLE
                     /\ CpusBuilt.Buffer[i].ExtIntcId = 0
                     /\ fdt.cpus[i].regLen = WidthOfCells
                          => CpusBuilt.Buffer[i].HartId = HartIdOf(fdt.cpus[i])
        /\ \A p \in Obtained("RintcInfoBuffer") : Occurrences(lastCall.frees, p) = 1
\* The builder returned the records of several harts, in order, and
\* released the buffer.
C16_Witness ==
  /\ HartBuilderRan /\ lastCall.Parts.Cpus.Status = "EFI_SUCCESS"
  /\ Len(fdt.cpus) >= 2
  /\ HartIdOf(fdt.cpus[1]) # HartIdOf(fdt.cpus[2])
  /\ lastCall.Parts.Cpus.Buffer[2].HartId = HartIdOf(fdt.cpus[2])
  /\ \E p \in Obtained("RintcInfoBuffer") : Occurrences(lastCall.frees, p) = 1

\* ---- C17: the hart builder fails with EFI_ABORTED at a "cpu" whose "reg"
\* is absent or neither 4 nor 8 bytes long; otherwise it decodes the id with
\* the width of #address-cells (8 bytes for 2 cells, else 4), and never
\* decodes more bytes than the property has.
C17_HartIdWidth ==
  (HartBuilderRan /\ Obtained("RintcInfoBuffer") # {}
     /\ \A i \in DOMAIN fdt.cpus : fdt.cpus[i].compatible)
    => /\ (\E i \in DOMAIN fdt.cpus : fdt.cpus[i].regLen \notin {4, 8})
            => CpusBuilt.Status = "EFI_ABORTED"
       /\ \A i \in DOMAIN CpusBuilt.Bytes :
            /\ CpusBuilt.Bytes[i] = WidthOfCells
            /\ CpusBuilt.Bytes[i] <= fdt.cpus[i].regLen

\* The source count the tree gives its node i.
NumSourcesOf(i) ==
  IF "riscv,num-sources" \in DOMAIN fdt.nodes[i].props
    THEN fdt.nodes[i].props["riscv,num-sources"].Data[1]
    ELSE fdt.nodes[i].props["riscv,ndev"].Data[1]
\* The global interrupts of the k-th record.
GsiRange(k) == CommonOf(k).GsiBase .. (CommonOf(k).GsiBase + CommonOf(k).NumSources - 1)

\* ---- C18: in every call of PlicAplicInfoParser the counter of global
\* interrupts starts at 0: the first qualifying controller has GsiBase 0,
\* each later one the GsiBase of its predecessor plus the predecessor's
\* source count, so the ranges of distinct controllers are disjoint and
\* adjacent, and the sequence ids are 0..k-1 in traversal order.
C18_GlobalInterruptNumbering ==
  ControllersParsed
    => /\ \A k \in DOMAIN ControllerRecords :
            /\ CommonOf(k).NumSources = NumSourcesOf(Qualifying[k])
            /\ k = 1 => CommonOf(k).GsiBase = 0
            /\ k > 1 => CommonOf(k).GsiBase
                          = CommonOf(k - 1).GsiBase + CommonOf(k - 1).NumSources
       /\ \A k, l \in DOMAIN ControllerRecords :
            k # l => GsiRange(k) \cap GsiRange(l) = {}
       /\ {CommonOf(k).Id : k \in DOMAIN ControllerRecords}
            = 0 .. (Len(ControllerRecords) - 1)
       /\ \A k, l \in DOMAIN ControllerRecords :
            k < l => CommonOf(k).Id < CommonOf(l).Id
\* A second extraction in the same process numbered two controllers, the
\* second one after the sources of the first.
C18_Witness ==
  /\ ControllersParsed /\ lastCall.prev.op = "Dispatch"
  /\ Len(ControllerRecords) >= 2
  /\ CommonOf(1).GsiBase = 0 /\ CommonOf(1).NumSources > 0
  /\ CommonOf(2).GsiBase = CommonOf(1).NumSources

\* The back-annotations of the last call, and of each: the node of its
\* controller, the pair of that node's routing list it was made for, and
\* the context index in its id.
Writes == lastCall.Parts.Writes
WriteNode(w) == Qualifying[Writes[w].Id + 1]
PairsOf(i) == Len(RoutingOf(i)) \div 2
\* The pairs of node i that are back-annotated: of a PLIC those of the
\* supervisor external interrupt, of an APLIC all.
PairsUsed(i) ==
  {q \in 0..(PairsOf(i) - 1) : IsPlic(i) => RoutingOf(i)[2 * q + 2] = IRQ_S_EXT}
CtxOf(i, q) == IF IsPlic(i) THEN 2 * (q \div 2) + 1 ELSE q
\* The last back-annotation that reached the record of "cpu" h, 0 if none.
WritesTo(h) ==
  {w \in DOMAIN Writes : /\ Writes[w].Status = "EFI_SUCCESS"
                         /\ Writes[w].Phandle = fdt.cpus[h].phandle}
LastWriteTo(h) == CHOOSE w \in WritesTo(h) : \A v \in WritesTo(h) : v <= w

\* ---- C19: for the controller with sequence id s every back-annotated
\* pair writes s * 2^24 + ctx into the record of the hart that owns the
\* interrupt controller the pair names, so the upper byte of the id is s; a
\* PLIC uses only the pairs of the supervisor external interrupt, with
\* ctx = 2 * (p \div 2) + 1 for the pair at position p; an APLIC uses every
\* pair, with ctx = p.
C19_CompositeExtIntcId ==
  (ControllersParsed /\ ValidHarts
     /\ \A i \in DOMAIN fdt.nodes : Len(RoutingOf(i)) % 2 = 0)
    => /\ \A w \in DOMAIN Writes :
            /\ Writes[w].Id < Len(Qualifying)
            /\ Writes[w].Pair \in PairsUsed(WriteNode(w))
            /\ Writes[w].Phandle = RoutingOf(WriteNode(w))[2 * Writes[w].Pair + 1]
            /\ Writes[w].ExtIntcId
                 = Writes[w].Id * (2 ^ 24) + CtxOf(WriteNode(w), Writes[w].Pair)
            /\ Writes[w].ExtIntcId \div (2 ^ 24) = Writes[w].Id
       /\ \A k \in DOMAIN Qualifying : \A q \in PairsUsed(Qualifying[k]) :
            \E w \in DOMAIN Writes : Writes[w].Id = k - 1 /\ Writes[w].Pair = q
       /\ DispatchSucceeded
            => \A h \in DOMAIN fdt.cpus :
                 lastCall.Harts[h].ExtIntcId
                   = (IF WritesTo(h) = {} THEN 0 ELSE Writes[LastWriteTo(h)].ExtIntcId)
\* The second controller of a tree annotated a hart: the id has 1 in its
\* upper byte and the position of the pair below.
C19_Witness ==
  /\ DispatchSucceeded /\ ControllersParsed /\ ValidHarts
  /\ \E w \in DOMAIN Writes :
       /\ Writes[w].Id = 1 /\ Writes[w].Pair = 1 /\ Writes[w].Status = "EFI_SUCCESS"
       /\ \E h \in DOMAIN lastCall.Harts :
            lastCall.Harts[h].ExtIntcId = Writes[w].ExtIntcId

\* The IMSIC records the last call registered, and the first IMSIC node of
\* supervisor level, the one the parser reads.
IsImsicRecord(a) == a.Kind = "imsic"
ImsicRecords == SelectSeq(lastCall.Parts.Added, IsImsicRecord)
SModeImsics == {i \in DOMAIN fdt.nodes : IsSModeImsic(i)}
FirstSModeImsic == CHOOSE i \in SModeImsics : \A j \in SModeImsics : i <= j
\* The least b with 2^b >= n, for n >= 1.
CeilLog2(n) == CHOOSE b \in 0..n : 2 ^ b >= n /\ \A c \in 0..(b - 1) : 2 ^ c < n

\* ---- C20: when the qualifying IMSIC node has no "riscv,hart-index-bits"
\* the registered HartIndexBits is ceil(log2(n)), n the number of pairs of
\* the node's routing list.
C20_HartIndexBitsDefault ==
  (DispatchReturned /\ Len(ImsicRecords) > 0 /\ SModeImsics # {}
     /\ "riscv,hart-index-bits" \notin DOMAIN fdt.nodes[FirstSModeImsic].props)
    => ImsicRecords[1].Info.HartIndexBits = CeilLog2(PairsOf(FirstSModeImsic))

\* What the tree says of the regions of its first IMSIC of supervisor
\* level: their number, the base of region r and the pages it holds, the
\* pages of the regions before r, and the region that holds the page of the
\* reference q (from 0) of the routing list, 0 when the pages are used up.
ImsicReg == fdt.nodes[FirstSModeImsic].props["reg"].Data
ImsicRegions == Len(ImsicReg) \div 4
RegionBase(r) == <<ImsicReg[4 * r - 3], ImsicReg[4 * r - 2]>>
RegionPages(r) ==
  ImsicReg[4 * r - 1] * (2 ^ 20) + ImsicReg[4 * r] \div IMSIC_MMIO_PAGE_SZ
RECURSIVE PagesBefore(_)
PagesBefore(r) == IF r <= 1 THEN 0 ELSE PagesBefore(r - 1) + RegionPages(r - 1)
RegionOfRef(q) ==
  IF \E r \in 1..ImsicRegions : PagesBefore(r) <= q /\ q < PagesBefore(r) + RegionPages(r)
    THEN CHOOSE r \in 1..ImsicRegions :
           PagesBefore(r) <= q /\ q < PagesBefore(r) + RegionPages(r)
    ELSE 0
\* The record the last call registered for the hart the reference q names.
RecordOfRef(q) ==
  lastCall.Harts[CHOOSE h \in DOMAIN fdt.cpus :
                   fdt.cpus[h].phandle = RoutingOf(FirstSModeImsic)[2 * q + 1]]
\* The IMSIC parser assigned the harts of a valid tree their pages, each
\* hart named by one reference.
ImsicAssigned ==
  /\ DispatchSucceeded /\ ValidHarts /\ lastCall.Parts.Imsic = "EFI_SUCCESS"
  /\ \A q \in 0..(PairsOf(FirstSModeImsic) - 1) :
       /\ \E h \in DOMAIN fdt.cpus :
            fdt.cpus[h].phandle = RoutingOf(FirstSModeImsic)[2 * q + 1]
       /\ \A v \in 0..(PairsOf(FirstSModeImsic) - 1) :
            v # q => RoutingOf(FirstSModeImsic)[2 * v + 1]
                       # RoutingOf(FirstSModeImsic)[2 * q + 1]

\* ---- C21: the references of the IMSIC's routing list are consumed in
\* order across the regions, region r taking at most size_r \div page size
\* of them; the reference with local index l in region r gives its hart the
\* address base_r + l * page size and the size of one page; a reference
\* beyond the pages of all regions gives its hart nothing; distinct
\* references get distinct addresses, and every reference gets one when the
\* regions hold at least as many pages as there are references.
C21_ImsicTargetAssignment ==
  ImsicAssigned
    => /\ \A q \in 0..(PairsOf(FirstSModeImsic) - 1) :
            IF RegionOfRef(q) = 0
              THEN /\ RecordOfRef(q).ImsicBaseAddress = <<0, 0>>
                   /\ RecordOfRef(q).ImsicSize = 0
              ELSE /\ RecordOfRef(q).ImsicBaseAddress
                        = <<RegionBase(RegionOfRef(q))[1],
                            RegionBase(RegionOfRef(q))[2]
                              + (q - PagesBefore(RegionOfRef(q))) * IMSIC_MMIO_PAGE_SZ>>
                   /\ RecordOfRef(q).ImsicSize = IMSIC_MMIO_PAGE_SZ
       /\ \A q, v \in 0..(PairsOf(FirstSModeImsic) - 1) :
            (q # v /\ RegionOfRef(q) # 0 /\ RegionOfRef(v) # 0)
              => RecordOfRef(q).ImsicBaseAddress # RecordOfRef(v).ImsicBaseAddress
       /\ PagesBefore(ImsicRegions + 1) >= PairsOf(FirstSModeImsic)
            => \A q \in 0..(PairsOf(FirstSModeImsic) - 1) :
                 RecordOfRef(q).ImsicSize = IMSIC_MMIO_PAGE_SZ
\* Two harts got their pages in different regions, the second one in a
\* region that follows one with room for a single hart.
C21_Witness ==
  /\ ImsicAssigned /\ ImsicRegions >= 2 /\ PairsOf(FirstSModeImsic) >= 2
  /\ RegionOfRef(0) = 1 /\ RegionOfRef(1) = 2
  /\ RegionPages(1) = 1 /\ ImsicReg[4] > IMSIC_MMIO_PAGE_SZ
  /\ RecordOfRef(1).ImsicBaseAddress = RegionBase(2)

\* The node indexer the last build left with the generator, and what the
\* registry makes of the groups the writer visits in the order ISA, CMO,
\* Hart Info: the number of nodes and the offset of node k (from 0), every
\* node placed at the end of the ones before it.
PlannedIndexer == heap[Generator.NodeIndexer].data.Indexer
IsaNodes == IF registry.isa = <<>> THEN 0 ELSE 1
EmittedNodes == IsaNodes + CmoListCount(registry.cmo) + Len(registry.rintc)
IsaGroupBytes == IF registry.isa = <<>> THEN W(0) ELSE IsaNodeBytes
EmittedObject(k) ==
  IF k < IsaNodes THEN "IsaString"
  ELSE IF k < IsaNodes + CmoListCount(registry.cmo) THEN "CmoNode"
  ELSE "RintcInfo"
EmittedOffset(k) ==
  IF k < IsaNodes THEN W(RhctTableStructSize)
  ELSE IF k < IsaNodes + CmoListCount(registry.cmo)
    THEN WAdd(WAdd(W(RhctTableStructSize), IsaGroupBytes),
              WMul(W(RhctCmoNodeSize), k - IsaNodes))
    ELSE WAdd(WAdd(WAdd(W(RhctTableStructSize), IsaGroupBytes), CmoGroupBytes),
              WMul(HartNodeBytes, k - IsaNodes - CmoListCount(registry.cmo)))
\* A build that succeeded for a table below 64 KiB, its indexer still held.
SmallTableBuilt ==
  /\ BuildSucceeded /\ ~lastCall.ub /\ Generator.NodeIndexer # 0
  /\ CmoListCount(registry.cmo) <= MaxCmoObjs
  /\ WLeq(TrueTableBytes, W(MAX_UINT16))

\* ---- C22: after planning the node indexer holds exactly one populated
\* entry per node the writer emits (the ISA node, each CMO node, each Hart
\* Info node), in the writer's order, each with the running table size at
\* the time it was appended as its offset: the offsets never decrease, and
\* within a group they advance by the size of the group's node.
C22_NodeIndexComplete ==
  SmallTableBuilt
    => /\ PlannedIndexer.cap = EmittedNodes
       /\ \A k \in 0..(EmittedNodes - 1) :
            /\ IndexerEntry(PlannedIndexer, k).Object = EmittedObject(k)
            /\ IndexerEntry(PlannedIndexer, k).Offset = EmittedOffset(k)
       /\ \A k \in 1..(EmittedNodes - 1) :
            WLeq(IndexerEntry(PlannedIndexer, k - 1).Offset,
                 IndexerEntry(PlannedIndexer, k).Offset)

\* The offsets of the groups of nodes other than Hart Info that the
\* registry gives rise to: that of the ISA group, then that of the CMO group.
GroupOffsets ==
  (IF registry.isa # <<>> THEN <<W(RhctTableStructSize)>> ELSE <<>>)
    \o (IF CmoListCount(registry.cmo) > 0
          THEN <<WAdd(W(RhctTableStructSize), IsaGroupBytes)>> ELSE <<>>)

\* ---- C23: in a table that was built every Hart Info node has the same
\* offset array; its length NumOffsets is the number of the groups other
\* than Hart Info that exist, and its entries are the offset of the ISA
\* group and then that of the CMO group, each if the group exists.
C23_HartOffsetArray ==
  SmallTableBuilt
    => \A j \in DOMAIN HartInfoNodes :
         /\ HartInfoNodes[j].NumOffsets = Len(GroupOffsets)
         /\ HartInfoNodes[j].Offsets = [vals |-> GroupOffsets, zeros |-> 0, junk |-> 0]
         /\ HartInfoNodes[j].Offsets = HartInfoNodes[1].Offsets

\* The offsets the size calculation gives the CMO group and the Hart Info
\* group, and the nodes of the table that lie at an offset.
CmoGroupOffset == WAdd(W(RhctTableStructSize), IsaGroupBytes)
HartGroupOffset == WAdd(CmoGroupOffset, CmoGroupBytes)
NodesAt(Offset) == {n \in DOMAIN BuiltRhct.nodes : BuiltRhct.nodes[n].Offset = Offset}

\* ---- C24: every planned node is written: for every CMO object i the
\* table holds at CmoOffset + i * (size of a CMO node) a node of the CMO
\* type, of that length and revision, with the three block sizes of object
\* i; and for every hart record j it holds at HartInfoOffset + j * (size of
\* a Hart Info node) a node of the Hart Info type, of the planned length,
\* with the UID of record j.
C24_EveryPlannedNodeWritten ==
  SmallTableBuilt
    => /\ \A i \in 0..(CmoListCount(registry.cmo) - 1) :
            \E n \in NodesAt(WAdd(CmoGroupOffset, WMul(W(RhctCmoNodeSize), i))) :
              /\ BuiltRhct.nodes[n].Type = NODE_TYPE_CMO
              /\ BuiltRhct.nodes[n].Length = RhctCmoNodeSize
              /\ BuiltRhct.nodes[n].Revision = CMO_NODE_STRUCTURE_VERSION
              /\ BuiltRhct.nodes[n].CbomBlockSize = CmoListAt(registry.cmo, i).CbomBlockSize
              /\ BuiltRhct.nodes[n].CbopBlockSize = CmoListAt(registry.cmo, i).CbopBlockSize
              /\ BuiltRhct.nodes[n].CbozBlockSize = CmoListAt(registry.cmo, i).CbozBlockSize
       /\ \A j \in DOMAIN registry.rintc :
            \E n \in NodesAt(WAdd(HartGroupOffset, WMul(HartNodeBytes, j - 1))) :
              /\ BuiltRhct.nodes[n].Type = NODE_TYPE_HART_INFO
              /\ BuiltRhct.nodes[n].Length = U16(HartNodeBytes)
              /\ BuiltRhct.nodes[n].Uid = registry.rintc[j].AcpiProcessorUid

Enriched == lastCall.Parts.Enriched
\* The records a and b differ at most in the fields named.
SameBut(a, b, fields) ==
  /\ DOMAIN a = DOMAIN b
  /\ \A i \in DOMAIN a : \A f \in DOMAIN a[i] \ fields : a[i][f] = b[i][f]
\* The hart ids the routing lists of the tree name, as the resolvers decode
\* them for the word junk past a short "reg".
ReferencedHartIds(junk) ==
  UNION {{DecodeHartId(HartOfPhandle(fdt, RoutingOf(i)[c]), fdt.AddressCells, junk).HartId :
            c \in {x \in DOMAIN RoutingOf(i) :
                     x % 2 = 1 /\ HartOfPhandle(fdt, RoutingOf(i)[x]) # NoHart}} :
         i \in DOMAIN fdt.nodes}

\* ---- C26: the resolvers only enrich the hart records: neither adds,
\* removes or reorders records or changes a UID, hart id, version or flags;
\* ImsicRintcInfoParser changes only ImsicBaseAddress and ImsicSize,
\* PlicAplicInfoParser only ExtIntcId, and each only in records whose hart
\* id is that of a hart a routing list names.
C26_ResolversOnlyEnrich ==
  (DispatchReturned /\ Len(Enriched) >= 1)
    => /\ SameBut(CpusBuilt.Buffer, Enriched[1], {"ImsicBaseAddress", "ImsicSize"})
       /\ Len(Enriched) >= 2 => SameBut(Enriched[1], Enriched[2], {"ExtIntcId"})
       /\ \A k \in DOMAIN Enriched : \A h \in DOMAIN Enriched[k] :
            Enriched[k][h] # CpusBuilt.Buffer[h]
              => \E junk \in JunkWords : Enriched[k][h].HartId \in ReferencedHartIds(junk)
       /\ DispatchSucceeded => lastCall.Harts = Enriched[Len(Enriched)]
\* Both resolvers changed records: a hart has its page from the IMSIC and
\* its controller id from the PLIC.
C26_Witness ==
  /\ DispatchSucceeded /\ Len(Enriched) = 2
  /\ \E h \in DOMAIN Enriched[1] : Enriched[1][h].ImsicSize # 0
  /\ \E h \in DOMAIN Enriched[2] : Enriched[2][h].ExtIntcId # 0

\* ---- C27: the string length field of the ISA node is the number of bytes
\* of the string stored with its one terminator, strlen(S) + 1, and never
\* exceeds the bytes the node reserves for the string, the node's Length
\* less the fixed part of an ISA node.
C27_IsaStringLengthField ==
  (BuildSucceeded /\ WLeq(IsaNodeBytes, W(MAX_UINT16)))
    => /\ IsaNode.Type = NODE_TYPE_ISA_STRING
       /\ IsaNode.IsaLength = AsciiStrLen(registry.isa[1]) + 1
       /\ IsaNode.IsaLength <= IsaNode.Length - RhctIsaStringNodeSize

\* The node a reader finds at an offset of the table, and the walk of a
\* reader from an offset on: the number of nodes it visits when every node
\* has a type that is known and a Length that is not 0 and the last one ends
\* with the table, else -1.  Where nothing was stored the buffer is zero, a
\* node of Length 0.
NodeAtOffset(Offset) == BuiltRhct.nodes[CHOOSE n \in NodesAt(Offset) : TRUE]
NodeTypes == {NODE_TYPE_ISA_STRING, NODE_TYPE_CMO, NODE_TYPE_HART_INFO}
RECURSIVE WalkFrom(_, _)
WalkFrom(Offset, Visited) ==
  IF Offset = BuiltRhct.Size THEN Visited
  ELSE IF NodesAt(Offset) = {} THEN -1
  ELSE IF NodeAtOffset(Offset).Length = 0 \/ NodeAtOffset(Offset).Type \notin NodeTypes
    THEN -1
    ELSE WalkFrom(WAdd(Offset, W(NodeAtOffset(Offset).Length)), Visited + 1)

\* ---- C28: a table that was built can be walked: from the header's
\* NodeOffset on, advancing by the Length of each node, a reader visits
\* exactly NodeCount nodes, each of a known type and a Length that is not 0,
\* and ends exactly at the size of the table.
C28_TableWalkable ==
  (BuildSucceeded /\ ~lastCall.ub)
    => WalkFrom(W(BuiltRhct.NodeOffset), 0) = BuiltRhct.NodeCount

\* The interrupt numbers the conversions are asked for, and the nodes of the
\* tree that are no qualifying controller.
IrqSample == 0 .. MaxCpus
NeverRegistered == (1 .. (Len(fdt.nodes) + 1)) \ {Qualifying[k] : k \in DOMAIN Qualifying}
\* The conversion of an interrupt of a node with the list as it is.
GsiOf(ExtIntcNode, Irq) == FdtConvertToGsi(heap, ExtIntcList, ExtIntcNode, Irq)
\* The pool after a call of FdtFreeExtIntcList in this state.
AfterFreeExtIntcList == FdtFreeExtIntcList(Pool, ExtIntcList).m.heap

\* ---- C29: after PlicAplicInfoParser went through the controllers with
\* the pool serving it, the list has an entry for each of them: the
\* conversion of an interrupt of any of them, not only of the last, is its
\* GsiBase plus the interrupt, a node that was never registered gets the
\* interrupt back, and FdtFreeExtIntcList releases every entry the call
\* allocated.
C29_ExtIntcListIntegrity ==
  (ControllersParsed /\ Served /\ Len(ControllerRecords) >= 1)
    => /\ \A k \in DOMAIN ControllerRecords : \A Irq \in IrqSample :
            GsiOf(Qualifying[k], Irq) = [ub |-> FALSE, Gsi |-> CommonOf(k).GsiBase + Irq]
       /\ \A n \in NeverRegistered : \A Irq \in IrqSample :
            GsiOf(n, Irq) = [ub |-> FALSE, Gsi |-> Irq]
       /\ Obtained("ExtIntcNode") \cap DOMAIN AfterFreeExtIntcList = {}

\* A step that is a call of the dispatcher.
DispatchStep == calls' = calls + 1 /\ lastCall'.op = "Dispatch"

\* ---- C30: a call of the extraction that returns an error leaves in the
\* registry no object it registered (the IMSIC's record, the records of the
\* controllers before the failure, the hart records): the registry is as it
\* was before the call; a call that succeeds registers the hart records
\* once, as the second of the two resolvers left them.
C30_ExtractionAllOrNothing ==
  [][DispatchStep
       => /\ lastCall'.Status # "EFI_SUCCESS" => registry' = registry
          /\ lastCall'.Status = "EFI_SUCCESS"
               => /\ Len(lastCall'.Parts.Enriched) = 2
                  /\ registry'.rintc = lastCall'.Parts.Enriched[2]
                  /\ lastCall'.Harts = registry'.rintc]_vars
====
